---- MODULE Spec2Model ----
(***************************************************************************)
(* Model of the quiz content-management services: CategoryService,         *)
(* QuizService and QuestionService over the Category / Quiz / Question     *)
(* tables, with Question.clean / Question.save.                            *)
(*                                                                         *)
(* Strings are sequences of one-character strings, so that str.strip(),    *)
(* str.lower() and len() are computed and not assumed.  An absent value    *)
(* (Python None, or a key missing from the data dictionary: data.get gives *)
(* None for both) is the value None below.                                 *)
(***************************************************************************)
EXTENDS Integers, Sequences, FiniteSets, TLC

VARIABLES categories, quizzes, questions,
          nextCategoryId, nextQuizId, nextQuestionId,
          last, calls

store == <<categories, quizzes, questions>>
vars == <<categories, quizzes, questions,
          nextCategoryId, nextQuizId, nextQuestionId, last, calls>>

(***************************************************************************)
(* Bounds of the model: how many rows of each table a run may insert.      *)
(***************************************************************************)
MaxCategories == 2
MaxQuizzes == 2
MaxQuestions == 2

(***************************************************************************)
(* quiz/constants.py, with the values that the field validators of         *)
(* quiz/serializers.py repeat as literals                                  *)
(***************************************************************************)
CATEGORY_TITLE_LENGTH == 100
TEXT_LENGTH == 500
DESCRIPTION_LENGTH == 500
EXPLANATION_LENGTH == 250
OPTIONS_COUNT == 2
\* quiz/services/quiz_s.py writes its limits as literals
QuizTitleLimit == 200
QuizDescriptionLimit == 500

(***************************************************************************)
(* Values                                                                  *)
(***************************************************************************)
None == <<"None">>
NoId == 0

Rep(c, n) == [i \in 1..n |-> c]

Whitespace == {" "}

RECURSIVE lstrip(_)
lstrip(s) ==
  IF s # <<>> /\ Head(s) \in Whitespace THEN lstrip(Tail(s)) ELSE s

RECURSIVE rstrip(_)
rstrip(s) ==
  IF s # <<>> /\ s[Len(s)] \in Whitespace
  THEN rstrip(SubSeq(s, 1, Len(s) - 1))
  ELSE s

strip(s) == rstrip(lstrip(s))

lower_char(c) ==
  CASE c = "A" -> "a"
    [] c = "B" -> "b"
    [] OTHER -> c

lower(s) == [i \in 1..Len(s) |-> lower_char(s[i])]

\* Python truthiness of an optional string: neither None nor ''.
Truthy(s) == s # None /\ s # <<>>

Range(f) == {f[x] : x \in DOMAIN f}

\* the value that stands for Python None where a key of the data dictionary
\* is read: no id, no options, no difficulty, no string
NoneOf(key) ==
  CASE key = "category_id" -> NoId
    [] key = "options" -> [t |-> "none", v |-> <<>>]
    [] key = "difficulty" -> "None"
    [] OTHER -> None

\* data.get(key): the value under key, None when the dictionary has no such key
data_get(data, key) == IF key \in DOMAIN data THEN data[key] ELSE NoneOf(key)

(***************************************************************************)
(* Outcomes.  cls is the class of the raised exception ("ok": the call     *)
(* returned); msg is the chain of messages str(e) carries, outermost       *)
(* first (a handler that re-raises Exception(f'...: {e}') prepends one).   *)
(***************************************************************************)
Ok == [cls |-> "ok", msg |-> <<>>]
Raise(cls, m) == [cls |-> cls, msg |-> <<m>>]
\* except ... as e: raise Exception(f'<prefix>: {e}')
Wrap(prefix, r) == [cls |-> "Exception", msg |-> <<prefix>> \o r.msg]

NoRet == [id |-> NoId]

(***************************************************************************)
(* Calls in flight.  Each request is served by its own worker, which runs  *)
(* one service call; the workers share nothing but the tables.  A call     *)
(* that is run in one piece (every specification but SpecConcurrent)       *)
(* leaves calls alone.  pc is the statement the worker is to run next, obj *)
(* the object it has fetched and res the outcome once pc is "done".        *)
(***************************************************************************)
Workers == {1, 2}
Idle == [op |-> "none", pc |-> "idle", id |-> NoId, data |-> <<>>, obj |-> <<>>,
         res |-> Ok]
NoCalls == [w \in Workers |-> Idle]

(***************************************************************************)
(* The kinds of failure.  The services have one exception class of their   *)
(* own use, django's ValidationError; every other failure is a plain       *)
(* Exception told apart by its message, as the views do with               *)
(* 'не найден' in str(e).lower().                                          *)
(***************************************************************************)
\* the messages whose text contains 'не найден'
NotFoundMessages ==
  {"CategoryNotFound", "QuizNotFound", "QuestionNotFound",
   "RequiredObjectsNotFound", "CategoryNotFoundOnUpdate"}
ConflictMessages == {"CategoryHasQuestions", "QuizHasQuestions"}

IsNotFound(r) == r.cls = "Exception" /\ \E i \in DOMAIN r.msg : r.msg[i] \in NotFoundMessages
IsConflict(r) == r.cls = "Exception" /\ \E i \in DOMAIN r.msg : r.msg[i] \in ConflictMessages
IsValidationError(r) == r.cls = "ValidationError"
IsNoQuestions(r) ==
  r.cls = "Exception" /\ \E i \in DOMAIN r.msg : r.msg[i] = "QuizHasNoQuestions"

(***************************************************************************)
(* Category table and CategoryService                                      *)
(***************************************************************************)
CategoryRow(id) == [id |-> id, title |-> categories[id].title]

\* category.questions / quiz.questions: the rows of Question that reference it
questions_of_category(id) == {q \in DOMAIN questions : questions[q].category = id}
questions_of_quiz(id) == {q \in DOMAIN questions : questions[q].quiz = id}

\* get_category without its except Http404 clause
get_category_NoHttp404Clause(category_id) ==
  IF category_id \in DOMAIN categories
  THEN [res |-> Ok, ret |-> CategoryRow(category_id)]
  ELSE [res |-> Wrap("GetCategoryError", Raise("Http404", "NoCategoryMatchesQuery")),
        ret |-> NoRet]

get_category(category_id) ==
  IF category_id \in DOMAIN categories
  THEN [res |-> Ok, ret |-> CategoryRow(category_id)]
  ELSE [res |-> Raise("Exception", "CategoryNotFound"), ret |-> NoRet]

\* a get_or_create whose lookup matches no row
categories_with_title_NoMatch(t) == {}

\* Category.objects.get_or_create(title=t): the rows the lookup matches
categories_with_title(t) == {c \in DOMAIN categories : categories[c].title = t}

create_category(title) ==
  IF ~Truthy(title) \/ Len(strip(title)) = 0
  THEN Raise("ValidationError", "CategoryTitleEmpty")
  ELSE IF Len(title) > CATEGORY_TITLE_LENGTH
  THEN Raise("ValidationError", "CategoryTitleTooLong")
  ELSE LET n == Cardinality(categories_with_title(strip(title))) IN
       IF n = 0 THEN Ok
       ELSE IF n = 1
       THEN Wrap("CreateCategoryError", Raise("ValidationError", "CategoryExists"))
       ELSE Wrap("CreateCategoryError", Raise("MultipleObjectsReturned", "MultipleObjectsReturned"))

CreateCategory(title) ==
  LET r == create_category(title) IN
  /\ r.cls = "ok" => nextCategoryId <= MaxCategories
  /\ IF r.cls = "ok"
     THEN /\ categories' = [c \in DOMAIN categories \cup {nextCategoryId} |->
                              IF c = nextCategoryId THEN [title |-> strip(title)]
                              ELSE categories[c]]
          /\ nextCategoryId' = nextCategoryId + 1
          /\ last' = [op |-> "create_category", id |-> NoId, data |-> [title |-> title],
                      res |-> r,
                      ret |-> [id |-> nextCategoryId, title |-> strip(title)]]
     ELSE /\ UNCHANGED <<categories, nextCategoryId>>
          /\ last' = [op |-> "create_category", id |-> NoId, data |-> [title |-> title],
                      res |-> r, ret |-> NoRet]
  /\ UNCHANGED <<calls, quizzes, questions, nextQuizId, nextQuestionId>>

GetCategory(category_id) ==
  LET g == get_category(category_id) IN
  /\ last' = [op |-> "get_category", id |-> category_id, data |-> <<>>,
              res |-> g.res, ret |-> g.ret]
  /\ UNCHANGED <<calls, categories, quizzes, questions,
                 nextCategoryId, nextQuizId, nextQuestionId>>

\* update_category up to category.save(): the outcome and the title to save
update_category(category_id, data, partial) ==
  LET g == get_category(category_id)
      title == data_get(data, "title") IN
  IF g.res.cls # "ok"
  THEN [res |-> Wrap("UpdateCategoryError", g.res), title |-> None]
  ELSE IF title # None \/ ~partial
  THEN IF title # None
       THEN IF ~Truthy(title) \/ Len(strip(title)) = 0
            THEN [res |-> Raise("ValidationError", "CategoryTitleEmpty"), title |-> None]
            ELSE IF Len(title) > CATEGORY_TITLE_LENGTH
            THEN [res |-> Raise("ValidationError", "CategoryTitleTooLong"), title |-> None]
            ELSE [res |-> Ok, title |-> strip(title)]
       ELSE [res |-> Ok, title |-> g.ret.title]
  ELSE [res |-> Ok, title |-> g.ret.title]

UpdateCategory(category_id, data, partial) ==
  LET u == update_category(category_id, data, partial) IN
  /\ IF u.res.cls = "ok"
     THEN /\ categories' = [categories EXCEPT ![category_id] = [title |-> u.title]]
          /\ last' = [op |-> "update_category", id |-> category_id,
                      data |-> [partial |-> partial] @@ data,
                      res |-> u.res,
                      ret |-> [id |-> category_id, title |-> u.title]]
     ELSE /\ UNCHANGED categories
          /\ last' = [op |-> "update_category", id |-> category_id,
                      data |-> [partial |-> partial] @@ data,
                      res |-> u.res, ret |-> NoRet]
  /\ UNCHANGED <<calls, quizzes, questions,
               nextCategoryId, nextQuizId, nextQuestionId>>

\* category.delete() / quiz.delete(): on_delete=CASCADE takes the referencing rows
cascade_category(id) ==
  [q \in DOMAIN questions \ questions_of_category(id) |-> questions[q]]
cascade_quiz(id) ==
  [q \in DOMAIN questions \ questions_of_quiz(id) |-> questions[q]]

delete_category_NoGuard(category_id) ==
  LET g == get_category(category_id) IN
  IF g.res.cls # "ok" THEN Wrap("DeleteCategoryError", g.res) ELSE Ok

delete_category(category_id) ==
  LET g == get_category(category_id) IN
  IF g.res.cls # "ok" THEN Wrap("DeleteCategoryError", g.res)
  ELSE IF questions_of_category(category_id) # {}
  THEN Wrap("DeleteCategoryError", Raise("Exception", "CategoryHasQuestions"))
  ELSE Ok

DeleteCategory(category_id) ==
  LET r == delete_category(category_id) IN
  /\ IF r.cls = "ok"
     THEN /\ categories' = [c \in DOMAIN categories \ {category_id} |-> categories[c]]
          /\ questions' = cascade_category(category_id)
     ELSE UNCHANGED <<categories, questions>>
  /\ last' = [op |-> "delete_category", id |-> category_id, data |-> <<>>,
              res |-> r, ret |-> NoRet]
  /\ UNCHANGED <<calls, quizzes, nextCategoryId, nextQuizId, nextQuestionId>>

(***************************************************************************)
(* Quiz table and QuizService                                              *)
(***************************************************************************)
QuizRow(id) ==
  [id |-> id, title |-> quizzes[id].title, description |-> quizzes[id].description]

get_quiz(quiz_id) ==
  IF quiz_id \in DOMAIN quizzes
  THEN [res |-> Ok, ret |-> QuizRow(quiz_id)]
  ELSE [res |-> Raise("Exception", "QuizNotFound"), ret |-> NoRet]

\* x.strip() if x else None
strip_or_none(x) == IF Truthy(x) THEN strip(x) ELSE None

create_quiz(data) ==
  LET title == data_get(data, "title")
      description == data_get(data, "description") IN
  IF ~Truthy(title) \/ Len(strip(title)) = 0
  THEN Raise("ValidationError", "QuizTitleEmpty")
  ELSE IF Len(title) > QuizTitleLimit
  THEN Raise("ValidationError", "QuizTitleTooLong")
  ELSE IF Truthy(description) /\ Len(description) > QuizDescriptionLimit
  THEN Raise("ValidationError", "QuizDescriptionTooLong")
  ELSE Ok

CreateQuiz(data) ==
  LET r == create_quiz(data)
      row == [title |-> strip(data_get(data, "title")),
              description |-> strip_or_none(data_get(data, "description"))] IN
  /\ r.cls = "ok" => nextQuizId <= MaxQuizzes
  /\ IF r.cls = "ok"
     THEN /\ quizzes' = [z \in DOMAIN quizzes \cup {nextQuizId} |->
                           IF z = nextQuizId THEN row ELSE quizzes[z]]
          /\ nextQuizId' = nextQuizId + 1
          /\ last' = [op |-> "create_quiz", id |-> NoId, data |-> data, res |-> r,
                      ret |-> [id |-> nextQuizId, title |-> row.title,
                               description |-> row.description]]
     ELSE /\ UNCHANGED <<quizzes, nextQuizId>>
          /\ last' = [op |-> "create_quiz", id |-> NoId, data |-> data, res |-> r,
                      ret |-> NoRet]
  /\ UNCHANGED <<calls, categories, questions, nextCategoryId, nextQuestionId>>

GetQuiz(quiz_id) ==
  LET g == get_quiz(quiz_id) IN
  /\ last' = [op |-> "get_quiz", id |-> quiz_id, data |-> <<>>,
              res |-> g.res, ret |-> g.ret]
  /\ UNCHANGED <<calls, categories, quizzes, questions,
                 nextCategoryId, nextQuizId, nextQuestionId>>

\* update_quiz up to quiz.save(): the outcome and the row to save
update_quiz(quiz_id, data) ==
  LET g == get_quiz(quiz_id)
      title == data_get(data, "title")
      description == data_get(data, "description") IN
  IF g.res.cls # "ok"
  THEN [res |-> Wrap("UpdateQuizError", g.res), row |-> NoRet]
  ELSE IF Truthy(title) /\ Len(strip(title)) = 0
  THEN [res |-> Raise("ValidationError", "QuizTitleEmpty"), row |-> NoRet]
  ELSE IF Truthy(title) /\ Len(title) > QuizTitleLimit
  THEN [res |-> Raise("ValidationError", "QuizTitleTooLong"), row |-> NoRet]
  ELSE IF description # None /\ Truthy(description)
          /\ Len(description) > QuizDescriptionLimit
  THEN [res |-> Raise("ValidationError", "QuizDescriptionTooLong"), row |-> NoRet]
  ELSE [res |-> Ok,
        row |-> [title |-> IF Truthy(title) THEN strip(title) ELSE g.ret.title,
                 description |-> IF description # None
                                 THEN strip_or_none(description)
                                 ELSE g.ret.description]]

UpdateQuiz(quiz_id, data) ==
  LET u == update_quiz(quiz_id, data) IN
  /\ IF u.res.cls = "ok"
     THEN /\ quizzes' = [quizzes EXCEPT ![quiz_id] = u.row]
          /\ last' = [op |-> "update_quiz", id |-> quiz_id, data |-> data,
                      res |-> u.res,
                      ret |-> [id |-> quiz_id, title |-> u.row.title,
                               description |-> u.row.description]]
     ELSE /\ UNCHANGED quizzes
          /\ last' = [op |-> "update_quiz", id |-> quiz_id, data |-> data,
                      res |-> u.res, ret |-> NoRet]
  /\ UNCHANGED <<calls, categories, questions,
               nextCategoryId, nextQuizId, nextQuestionId>>

delete_quiz(quiz_id) ==
  LET g == get_quiz(quiz_id) IN
  IF g.res.cls # "ok" THEN Wrap("DeleteQuizError", g.res)
  ELSE IF questions_of_quiz(quiz_id) # {}
  THEN Wrap("DeleteQuizError", Raise("Exception", "QuizHasQuestions"))
  ELSE Ok

DeleteQuiz(quiz_id) ==
  LET r == delete_quiz(quiz_id) IN
  /\ IF r.cls = "ok"
     THEN /\ quizzes' = [z \in DOMAIN quizzes \ {quiz_id} |-> quizzes[z]]
          /\ questions' = cascade_quiz(quiz_id)
     ELSE UNCHANGED <<quizzes, questions>>
  /\ last' = [op |-> "delete_quiz", id |-> quiz_id, data |-> <<>>,
              res |-> r, ret |-> NoRet]
  /\ UNCHANGED <<calls, categories, nextCategoryId, nextQuizId, nextQuestionId>>

(***************************************************************************)
(* Question table, Question.clean / Question.save and QuestionService      *)
(*                                                                         *)
(* options is a JSON value: t = "list" with the elements in v, t = "str"   *)
(* for a string given in place of a list, t = "none" for an absent value.  *)
(***************************************************************************)
OptNone == [t |-> "none", v |-> <<>>]
OptList(l) == [t |-> "list", v |-> l]
OptStr(x) == [t |-> "str", v |-> x]

\* Python truthiness of options: None, [] and '' are falsy
opt_truthy(o) == o.t # "none" /\ o.v # <<>>

IsSubstring(x, y) ==
  \E i \in 0..(Len(y) - Len(x)) : SubSeq(y, i + 1, i + Len(x)) = x

\* x in o, for o a list (membership) or a string (substring)
opt_contains(o, x) ==
  IF o.t = "list" THEN x \in Range(o.v) ELSE IsSubstring(x, o.v)

Difficulty_choices == {"easy", "medium", "hard"}

QuestionRow(id) == [id |-> id] @@ questions[id]

\* Question.clean
clean_NoMembership(q) ==
  IF q.options.t # "list" THEN Raise("ValidationError", "OptionsNotList")
  ELSE IF Len(q.options.v) < OPTIONS_COUNT
  THEN Raise("ValidationError", "OptionsTooFew")
  ELSE Ok

clean(q) ==
  IF q.options.t # "list" THEN Raise("ValidationError", "OptionsNotList")
  ELSE IF Len(q.options.v) < OPTIONS_COUNT
  THEN Raise("ValidationError", "OptionsTooFew")
  ELSE IF q.correct_answer \notin Range(q.options.v)
  THEN Raise("ValidationError", "CorrectAnswerNotInOptions")
  ELSE Ok

get_question(question_id) ==
  IF question_id \in DOMAIN questions
  THEN [res |-> Ok, ret |-> QuestionRow(question_id)]
  ELSE [res |-> Raise("Exception", "QuestionNotFound"), ret |-> NoRet]

\* create_question_checks that trusts category_id: no Category.objects.get,
\* and none of the field checks that follow it
create_question_checks_NoCategoryLookup(quiz_id, data) ==
  IF quiz_id \notin DOMAIN quizzes
  THEN Wrap("RequiredObjectsNotFound", Raise("DoesNotExist", "QuizDoesNotExist"))
  ELSE IF data_get(data, "category_id") = NoId
  THEN Raise("ValidationError", "CategoryRequired")
  ELSE Ok

\* create_question up to Question.objects.create: the outcome of the checks
create_question_checks(quiz_id, data) ==
  LET text == data_get(data, "text")
      options == data_get(data, "options")
      correct_answer == data_get(data, "correct_answer")
      difficulty == data_get(data, "difficulty")
      description == data_get(data, "description")
      explanation == data_get(data, "explanation") IN
  IF quiz_id \notin DOMAIN quizzes
  THEN Wrap("RequiredObjectsNotFound", Raise("DoesNotExist", "QuizDoesNotExist"))
  ELSE IF data_get(data, "category_id") # NoId
          /\ data_get(data, "category_id") \notin DOMAIN categories
  THEN Wrap("RequiredObjectsNotFound", Raise("DoesNotExist", "CategoryDoesNotExist"))
  ELSE IF data_get(data, "category_id") = NoId
  THEN Raise("ValidationError", "CategoryRequired")
  ELSE IF ~Truthy(text) \/ Len(strip(text)) = 0
  THEN Raise("ValidationError", "TextEmpty")
  ELSE IF Len(text) > DESCRIPTION_LENGTH
  THEN Raise("ValidationError", "TextTooLong")
  ELSE IF Truthy(description) /\ Len(description) > DESCRIPTION_LENGTH
  THEN Raise("ValidationError", "DescriptionTooLong")
  ELSE IF ~Truthy(correct_answer)
  THEN Raise("ValidationError", "CorrectAnswerRequired")
  ELSE IF options.t = "none"
  THEN Raise("TypeError", "NoneTypeNotIterable")
  ELSE IF ~opt_contains(options, correct_answer)
  THEN Raise("ValidationError", "CorrectAnswerNotAmongOptions")
  ELSE IF difficulty \notin Difficulty_choices
  THEN Raise("ValidationError", "DifficultyInvalid")
  ELSE IF Truthy(explanation) /\ Len(explanation) > EXPLANATION_LENGTH
  THEN Raise("ValidationError", "ExplanationTooLong")
  ELSE Ok

\* create_question_row without text.strip()
create_question_row_NoStrip(quiz_id, data) ==
  [quiz |-> quiz_id,
   category |-> data_get(data, "category_id"),
   text |-> data_get(data, "text"),
   description |-> strip_or_none(data_get(data, "description")),
   options |-> data_get(data, "options"),
   correct_answer |-> data_get(data, "correct_answer"),
   explanation |-> strip_or_none(data_get(data, "explanation")),
   difficulty |-> data_get(data, "difficulty")]

\* the keyword arguments of Question.objects.create
create_question_row(quiz_id, data) ==
  [quiz |-> quiz_id,
   category |-> data_get(data, "category_id"),
   text |-> strip(data_get(data, "text")),
   description |-> strip_or_none(data_get(data, "description")),
   options |-> data_get(data, "options"),
   correct_answer |-> data_get(data, "correct_answer"),
   explanation |-> strip_or_none(data_get(data, "explanation")),
   difficulty |-> data_get(data, "difficulty")]

\* create_question with the catch-all handler of create_category
create_question_CatchAll(quiz_id, data) ==
  LET c == create_question_checks(quiz_id, data)
      r == IF c.cls # "ok" THEN c ELSE clean(create_question_row(quiz_id, data)) IN
  IF r.cls = "ok" THEN r ELSE Wrap("CreateQuestionError", r)

\* create_question: the checks, then Question.objects.create -> save -> clean
create_question(quiz_id, data) ==
  LET c == create_question_checks(quiz_id, data) IN
  IF c.cls # "ok" THEN c ELSE clean(create_question_row(quiz_id, data))

CreateQuestion(quiz_id, data) ==
  LET r == create_question(quiz_id, data)
      row == create_question_row(quiz_id, data) IN
  /\ r.cls = "ok" => nextQuestionId <= MaxQuestions
  /\ IF r.cls = "ok"
     THEN /\ questions' = [q \in DOMAIN questions \cup {nextQuestionId} |->
                             IF q = nextQuestionId THEN row ELSE questions[q]]
          /\ nextQuestionId' = nextQuestionId + 1
          /\ last' = [op |-> "create_question", id |-> quiz_id, data |-> data,
                      res |-> r, ret |-> [id |-> nextQuestionId] @@ row]
     ELSE /\ UNCHANGED <<questions, nextQuestionId>>
          /\ last' = [op |-> "create_question", id |-> quiz_id, data |-> data,
                      res |-> r, ret |-> NoRet]
  /\ UNCHANGED <<calls, categories, quizzes, nextCategoryId, nextQuizId>>

GetQuestion(question_id) ==
  LET g == get_question(question_id) IN
  /\ last' = [op |-> "get_question", id |-> question_id, data |-> <<>>,
              res |-> g.res, ret |-> g.ret]
  /\ UNCHANGED <<calls, categories, quizzes, questions,
                 nextCategoryId, nextQuizId, nextQuestionId>>

\* Python truthiness of data.get('difficulty'): "None" stands for an absent value
diff_truthy(d) == d # "None" /\ d # ""

\* current_options = options if options else question.options
current_options(options, question) ==
  IF opt_truthy(options) THEN options ELSE question.options

\* update_question_row that assigns description whether or not data holds it
update_question_row_AssignsDescription(question, data) ==
  LET category_id == data_get(data, "category_id")
      text == data_get(data, "text")
      description == data_get(data, "description")
      options == data_get(data, "options")
      correct_answer == data_get(data, "correct_answer")
      difficulty == data_get(data, "difficulty")
      explanation == data_get(data, "explanation") IN
  [quiz |-> question.quiz,
   category |-> IF category_id # NoId THEN category_id ELSE question.category,
   text |-> IF Truthy(text) THEN strip(text) ELSE question.text,
   description |-> strip_or_none(description),
   options |-> IF opt_truthy(options) THEN options ELSE question.options,
   correct_answer |-> IF Truthy(correct_answer) THEN correct_answer
                      ELSE question.correct_answer,
   explanation |-> IF explanation # None THEN strip_or_none(explanation)
                   ELSE question.explanation,
   difficulty |-> IF diff_truthy(difficulty) THEN difficulty
                  ELSE question.difficulty]

\* update_question_row that also assigns the quiz named by the key quiz_id
update_question_row_AssignsQuiz(question, data) ==
  LET category_id == data_get(data, "category_id")
      text == data_get(data, "text")
      description == data_get(data, "description")
      options == data_get(data, "options")
      correct_answer == data_get(data, "correct_answer")
      difficulty == data_get(data, "difficulty")
      explanation == data_get(data, "explanation") IN
  [quiz |-> IF "quiz_id" \in DOMAIN data THEN data.quiz_id ELSE question.quiz,
   category |-> IF category_id # NoId THEN category_id ELSE question.category,
   text |-> IF Truthy(text) THEN strip(text) ELSE question.text,
   description |-> IF description # None THEN strip_or_none(description)
                   ELSE question.description,
   options |-> IF opt_truthy(options) THEN options ELSE question.options,
   correct_answer |-> IF Truthy(correct_answer) THEN correct_answer
                      ELSE question.correct_answer,
   explanation |-> IF explanation # None THEN strip_or_none(explanation)
                   ELSE question.explanation,
   difficulty |-> IF diff_truthy(difficulty) THEN difficulty
                  ELSE question.difficulty]

\* the question object of update_question after every assignment, before save()
update_question_row(question, data) ==
  LET category_id == data_get(data, "category_id")
      text == data_get(data, "text")
      description == data_get(data, "description")
      options == data_get(data, "options")
      correct_answer == data_get(data, "correct_answer")
      difficulty == data_get(data, "difficulty")
      explanation == data_get(data, "explanation") IN
  [quiz |-> question.quiz,
   category |-> IF category_id # NoId THEN category_id ELSE question.category,
   text |-> IF Truthy(text) THEN strip(text) ELSE question.text,
   description |-> IF description # None THEN strip_or_none(description)
                   ELSE question.description,
   options |-> IF opt_truthy(options) THEN options ELSE question.options,
   correct_answer |-> IF Truthy(correct_answer) THEN correct_answer
                      ELSE question.correct_answer,
   explanation |-> IF explanation # None THEN strip_or_none(explanation)
                   ELSE question.explanation,
   difficulty |-> IF diff_truthy(difficulty) THEN difficulty
                  ELSE question.difficulty]

\* update_question between the fetch and question.save(): the lookup of a
\* supplied category and the checks of the supplied fields, on the fetched object
update_question_field_checks(question, data) ==
  LET text == data_get(data, "text")
      description == data_get(data, "description")
      options == data_get(data, "options")
      correct_answer == data_get(data, "correct_answer")
      difficulty == data_get(data, "difficulty")
      explanation == data_get(data, "explanation") IN
  IF data_get(data, "category_id") # NoId
     /\ data_get(data, "category_id") \notin DOMAIN categories
  THEN Wrap("CategoryNotFoundOnUpdate", Raise("DoesNotExist", "CategoryDoesNotExist"))
  ELSE IF Truthy(text) /\ Len(strip(text)) = 0
  THEN Raise("ValidationError", "TextEmpty")
  ELSE IF Truthy(text) /\ Len(text) > TEXT_LENGTH
  THEN Raise("ValidationError", "TextTooLong")
  ELSE IF Truthy(description) /\ Len(description) > DESCRIPTION_LENGTH
  THEN Raise("ValidationError", "DescriptionTooLong")
  ELSE IF opt_truthy(options) /\ (options.t # "list" \/ Len(options.v) < OPTIONS_COUNT)
  THEN Raise("ValidationError", "OptionsTooFewOrNotList")
  ELSE IF Truthy(correct_answer)
          /\ ~opt_contains(current_options(options, question), correct_answer)
  THEN Raise("ValidationError", "CorrectAnswerNotAmongOptions")
  ELSE IF diff_truthy(difficulty) /\ difficulty \notin Difficulty_choices
  THEN Raise("ValidationError", "DifficultyInvalid")
  ELSE IF Truthy(explanation) /\ Len(explanation) > EXPLANATION_LENGTH
  THEN Raise("ValidationError", "ExplanationTooLong")
  ELSE Ok

\* update_question up to question.save(): the outcome of the service's own checks
update_question_checks(question_id, data) ==
  LET g == get_question(question_id) IN
  IF g.res.cls # "ok" THEN Wrap("UpdateQuestionError", g.res)
  ELSE update_question_field_checks(questions[question_id], data)

\* update_question: the checks, then question.save() -> clean
update_question(question_id, data) ==
  LET c == update_question_checks(question_id, data) IN
  IF c.cls # "ok" THEN c
  ELSE clean(update_question_row(questions[question_id], data))

\* UpdateQuestion with a save() that writes the row before clean() runs
UpdateQuestion_SaveBeforeClean(question_id, data) ==
  LET r == update_question(question_id, data)
      c == update_question_checks(question_id, data) IN
  /\ IF c.cls = "ok"
     THEN questions' = [questions EXCEPT
                          ![question_id] = update_question_row(questions[question_id], data)]
     ELSE UNCHANGED questions
  /\ last' = [op |-> "update_question", id |-> question_id, data |-> data,
              res |-> r, ret |-> NoRet]
  /\ UNCHANGED <<calls, categories, quizzes,
               nextCategoryId, nextQuizId, nextQuestionId>>

UpdateQuestion(question_id, data) ==
  LET r == update_question(question_id, data) IN
  /\ IF r.cls = "ok"
     THEN LET row == update_question_row(questions[question_id], data) IN
          /\ questions' = [questions EXCEPT ![question_id] = row]
          /\ last' = [op |-> "update_question", id |-> question_id, data |-> data,
                      res |-> r, ret |-> [id |-> question_id] @@ row]
     ELSE /\ UNCHANGED questions
          /\ last' = [op |-> "update_question", id |-> question_id, data |-> data,
                      res |-> r, ret |-> NoRet]
  /\ UNCHANGED <<calls, categories, quizzes,
               nextCategoryId, nextQuizId, nextQuestionId>>

delete_question(question_id) ==
  LET g == get_question(question_id) IN
  IF g.res.cls # "ok" THEN Wrap("DeleteQuestionError", g.res) ELSE Ok

DeleteQuestion(question_id) ==
  LET r == delete_question(question_id) IN
  /\ IF r.cls = "ok"
     THEN questions' = [q \in DOMAIN questions \ {question_id} |-> questions[q]]
     ELSE UNCHANGED questions
  /\ last' = [op |-> "delete_question", id |-> question_id, data |-> <<>>,
              res |-> r, ret |-> NoRet]
  /\ UNCHANGED <<calls, categories, quizzes,
               nextCategoryId, nextQuizId, nextQuestionId>>

\* question.correct_answer.strip().lower() == answer.strip().lower()
answers_equal_CaseSensitive(correct_answer, answer) ==
  strip(correct_answer) = strip(answer)

answers_equal(correct_answer, answer) ==
  lower(strip(correct_answer)) = lower(strip(answer))

check_answer(question_id, answer) ==
  LET g == get_question(question_id) IN
  IF g.res.cls # "ok"
  THEN [res |-> Wrap("CheckAnswerError", g.res), ret |-> FALSE]
  ELSE IF answer = None
  THEN [res |-> Wrap("CheckAnswerError", Raise("AttributeError", "NoneTypeHasNoStrip")),
        ret |-> FALSE]
  ELSE [res |-> Ok, ret |-> answers_equal(g.ret.correct_answer, answer)]

CheckAnswer(question_id, answer) ==
  LET c == check_answer(question_id, answer) IN
  /\ last' = [op |-> "check_answer", id |-> question_id, data |-> [answer |-> answer],
              res |-> c.res, ret |-> c.ret]
  /\ UNCHANGED <<calls, categories, quizzes, questions,
                 nextCategoryId, nextQuizId, nextQuestionId>>

\* Question.objects.filter(quiz_id=quiz_id).all(), in Meta.ordering = ['id']
RECURSIVE ordered_by_id(_)
ordered_by_id(ids) ==
  IF ids = {} THEN <<>>
  ELSE LET m == CHOOSE x \in ids : \A y \in ids : x <= y IN
       <<m>> \o ordered_by_id(ids \ {m})

\* random.randint(0, count - 1): the indexes it can return
random_indexes_SkipFirst(count) == 1..(count - 1)

random_indexes(count) == 0..(count - 1)

\* random_question_from_quiz without Quiz.objects.get(id=quiz_id)
random_question_from_quiz_NoQuizLookup(quiz_id) ==
  LET ids == ordered_by_id(questions_of_quiz(quiz_id))
      count == Len(ids) IN
  IF count = 0
  THEN {[res |-> Wrap("RandomQuestionError", Raise("Exception", "QuizHasNoQuestions")),
         ret |-> NoRet]}
  ELSE {[res |-> Ok, ret |-> QuestionRow(ids[random_index + 1])] :
          random_index \in random_indexes(count)}

\* the outcomes random_question_from_quiz can have
random_question_from_quiz(quiz_id) ==
  LET ids == ordered_by_id(questions_of_quiz(quiz_id))
      count == Len(ids) IN
  IF quiz_id \notin DOMAIN quizzes
  THEN {[res |-> Raise("Exception", "QuizNotFound"), ret |-> NoRet]}
  ELSE IF count = 0
  THEN {[res |-> Wrap("RandomQuestionError", Raise("Exception", "QuizHasNoQuestions")),
         ret |-> NoRet]}
  ELSE {[res |-> Ok, ret |-> QuestionRow(ids[random_index + 1])] :
          random_index \in random_indexes(count)}

RandomQuestionFromQuiz(quiz_id) ==
  /\ \E o \in random_question_from_quiz(quiz_id) :
        last' = [op |-> "random_question_from_quiz", id |-> quiz_id, data |-> <<>>,
                 res |-> o.res, ret |-> o.ret]
  /\ UNCHANGED <<calls, categories, quizzes, questions,
                 nextCategoryId, nextQuizId, nextQuestionId>>

\* list(Quiz.objects.all().order_by('id'))
list_quizzes ==
  LET ids == ordered_by_id(DOMAIN quizzes) IN
  [i \in 1..Len(ids) |-> QuizRow(ids[i])]

ListQuizzes ==
  /\ last' = [op |-> "list_quizzes", id |-> NoId, data |-> <<>>, res |-> Ok,
              ret |-> [id |-> NoId, rows |-> list_quizzes]]
  /\ UNCHANGED <<calls, categories, quizzes, questions,
                 nextCategoryId, nextQuizId, nextQuestionId>>

(***************************************************************************)
(* Request handlers (quiz/views) and the serializers they validate with.   *)
(* A handler's outcome is recorded with the status of its Response.        *)
(***************************************************************************)
Response(op, id, data, res, status) ==
  [op |-> op, id |-> id, data |-> data, res |-> res,
   ret |-> [id |-> NoId, status |-> status]]

\* error_status = 400; if 'не найден' in str(e).lower(): error_status = 404
error_status(r) ==
  IF \E i \in DOMAIN r.msg : r.msg[i] \in NotFoundMessages THEN 404 ELSE 400

CategoryDetailAPIView_get(id) ==
  LET g == get_category(id) IN
  /\ last' = Response("CategoryDetailAPIView.get", id, <<>>, g.res,
                      IF g.res.cls = "ok" THEN 200 ELSE 404)
  /\ UNCHANGED <<calls, categories, quizzes, questions,
                 nextCategoryId, nextQuizId, nextQuestionId>>

\* put (partial = FALSE) and patch (partial = TRUE)
CategoryDetailAPIView_put(id, data, partial) ==
  LET u == update_category(id, data, partial) IN
  /\ categories' = IF u.res.cls = "ok"
                   THEN [categories EXCEPT ![id] = [title |-> u.title]]
                   ELSE categories
  /\ last' = Response(IF partial THEN "CategoryDetailAPIView.patch"
                      ELSE "CategoryDetailAPIView.put",
                      id, data, u.res, IF u.res.cls = "ok" THEN 200 ELSE 400)
  /\ UNCHANGED <<calls, quizzes, questions,
               nextCategoryId, nextQuizId, nextQuestionId>>

CategoryDetailAPIView_delete(id) ==
  LET r == delete_category(id) IN
  /\ IF r.cls = "ok"
     THEN /\ categories' = [c \in DOMAIN categories \ {id} |-> categories[c]]
          /\ questions' = cascade_category(id)
     ELSE UNCHANGED <<categories, questions>>
  /\ last' = Response("CategoryDetailAPIView.delete", id, <<>>, r,
                      IF r.cls = "ok" THEN 204 ELSE 400)
  /\ UNCHANGED <<calls, quizzes, nextCategoryId, nextQuizId, nextQuestionId>>

\* the outcome of is_valid() when it is False: the handler answers with
\* serializer.errors, or is_valid(raise_exception=True) raises
SerializerErrors == [cls |-> "serializers.ValidationError", msg |-> <<"SerializerErrors">>]

\* QuizSerializer(quiz, data=data, partial=partial).is_valid()
QuizSerializer_is_valid(data, partial) ==
  /\ partial \/ "title" \in DOMAIN data
  /\ "title" \in DOMAIN data =>
       /\ data.title # None
       /\ strip(data.title) # <<>>
       /\ Len(strip(data.title)) <= QuizTitleLimit
  /\ "description" \in DOMAIN data =>
       ~(Truthy(data.description) /\ Len(strip(data.description)) > QuizDescriptionLimit)

\* serializer.validated_data: the keys of data, strings trimmed
QuizSerializer_validated_data(data) ==
  [k \in DOMAIN data |-> IF data[k] = None THEN None ELSE strip(data[k])]

QuizDetailAPIView_get(pk) ==
  LET g == get_quiz(pk) IN
  /\ last' = Response("QuizDetailAPIView.get", pk, <<>>, g.res,
                      IF g.res.cls = "ok" THEN 200 ELSE 404)
  /\ UNCHANGED <<calls, categories, quizzes, questions,
                 nextCategoryId, nextQuizId, nextQuestionId>>

\* put (partial = FALSE) and patch (partial = TRUE)
QuizDetailAPIView_put(pk, data, partial) ==
  LET op == IF partial THEN "QuizDetailAPIView.patch" ELSE "QuizDetailAPIView.put"
      g == get_quiz(pk)
      u == update_quiz(pk, QuizSerializer_validated_data(data)) IN
  /\ IF g.res.cls # "ok"
     THEN /\ last' = Response(op, pk, data, g.res, error_status(g.res))
          /\ UNCHANGED quizzes
     ELSE IF ~QuizSerializer_is_valid(data, partial)
     THEN /\ last' = Response(op, pk, data, SerializerErrors, 400)
          /\ UNCHANGED quizzes
     ELSE IF u.res.cls # "ok"
     THEN /\ last' = Response(op, pk, data, u.res, error_status(u.res))
          /\ UNCHANGED quizzes
     ELSE /\ last' = Response(op, pk, data, u.res, 200)
          /\ quizzes' = [quizzes EXCEPT ![pk] = u.row]
  /\ UNCHANGED <<calls, categories, questions,
               nextCategoryId, nextQuizId, nextQuestionId>>

QuizDetailAPIView_delete(pk) ==
  LET r == delete_quiz(pk) IN
  /\ IF r.cls = "ok"
     THEN /\ quizzes' = [z \in DOMAIN quizzes \ {pk} |-> quizzes[z]]
          /\ questions' = cascade_quiz(pk)
     ELSE UNCHANGED <<quizzes, questions>>
  /\ last' = Response("QuizDetailAPIView.delete", pk, <<>>, r,
                      IF r.cls = "ok" THEN 204 ELSE error_status(r))
  /\ UNCHANGED <<calls, categories, nextCategoryId, nextQuizId, nextQuestionId>>

\* QuestionSerializer(data=data, partial=partial).is_valid(): the required
\* fields, the validate_<field> methods and validate
QuestionSerializer_is_valid(data, partial) ==
  LET has(k) == k \in DOMAIN data IN
  /\ partial \/ {"quiz_id", "category_id", "text", "options", "correct_answer"}
                  \subseteq DOMAIN data
  /\ has("text") =>
       /\ data.text # None
       /\ strip(data.text) # <<>>
       /\ Len(strip(data.text)) <= TEXT_LENGTH
  /\ has("description") =>
       ~(Truthy(data.description) /\ Len(data.description) > DESCRIPTION_LENGTH)
  /\ has("options") =>
       data.options.t = "list" /\ Len(data.options.v) >= OPTIONS_COUNT
  /\ has("correct_answer") =>
       Truthy(data.correct_answer) /\ strip(data.correct_answer) # <<>>
  /\ has("explanation") =>
       ~(Truthy(data.explanation) /\ Len(data.explanation) > EXPLANATION_LENGTH)
  /\ has("difficulty") => data.difficulty \in Difficulty_choices
  /\ (has("correct_answer") /\ has("options")) =>
       strip(data.correct_answer) \in Range(data.options.v)
  /\ (has("quiz_id") /\ data.quiz_id # NoId) => data.quiz_id \in DOMAIN quizzes
  /\ (has("category_id") /\ data.category_id # NoId) =>
       data.category_id \in DOMAIN categories

\* QuestionService.<method>(...) called on the class and not on an instance:
\* the first argument is taken for self and the last parameter gets no value
QuestionService_called_on_class == Raise("TypeError", "MissingPositionalArguments")

QuestionListCreateView_post(data) ==
  /\ last' = Response("QuestionListCreateView.post", NoId, data,
                      IF QuestionSerializer_is_valid(data, FALSE)
                      THEN QuestionService_called_on_class
                      ELSE SerializerErrors,
                      400)
  /\ UNCHANGED <<calls, categories, quizzes, questions,
                 nextCategoryId, nextQuizId, nextQuestionId>>

QuestionDetailView_get(pk) ==
  /\ last' = Response("QuestionDetailView.get", pk, <<>>,
                      QuestionService_called_on_class, 404)
  /\ UNCHANGED <<calls, categories, quizzes, questions,
                 nextCategoryId, nextQuizId, nextQuestionId>>

QuestionDetailView_put(pk, data) ==
  /\ last' = Response("QuestionDetailView.put", pk, data,
                      IF QuestionSerializer_is_valid(data, FALSE)
                      THEN QuestionService_called_on_class
                      ELSE SerializerErrors,
                      400)
  /\ UNCHANGED <<calls, categories, quizzes, questions,
                 nextCategoryId, nextQuizId, nextQuestionId>>

\* patch calls QuestionService.get_question(pk) before it validates
QuestionDetailView_patch(pk, data) ==
  /\ last' = Response("QuestionDetailView.patch", pk, data,
                      QuestionService_called_on_class, 400)
  /\ UNCHANGED <<calls, categories, quizzes, questions,
                 nextCategoryId, nextQuizId, nextQuestionId>>

QuestionDetailView_delete(pk) ==
  /\ last' = Response("QuestionDetailView.delete", pk, <<>>,
                      QuestionService_called_on_class, 400)
  /\ UNCHANGED <<calls, categories, quizzes, questions,
                 nextCategoryId, nextQuizId, nextQuestionId>>

(***************************************************************************)
(* Service calls run statement by statement.  A worker runs the queries of *)
(* its call one after the other, and between two of them the other worker  *)
(* may run its own: `with transaction.atomic()` encloses the last write of *)
(* a call only (get_or_create in create_category), never the earlier       *)
(* reads, and under read-committed isolation a transaction does not stop   *)
(* another one from committing.  Each action below is one step of one      *)
(* worker: the reads of the call and the checks made on their results, or  *)
(* its write.  The outcome of a call is calls[w].res once pc is "done".    *)
(***************************************************************************)
Call(op, pc, id, data, obj, res) ==
  [op |-> op, pc |-> pc, id |-> id, data |-> data, obj |-> obj, res |-> res]

\* Model.save() of an object that was fetched: UPDATE ... SET <every column>
\* WHERE id = pk, with the values of the object, whatever the row holds
save_ChangedColumns(object, fetched, stored) ==
  [f \in DOMAIN object |-> IF object[f] # fetched[f] THEN object[f] ELSE stored[f]]

save(object, fetched, stored) == object

\* create_category: the checks of the title and the SELECT of get_or_create
CreateCategory_get(w, title) ==
  LET r == create_category(title) IN
  /\ calls[w].pc = "idle"
  /\ calls' = [calls EXCEPT ![w] =
                 Call("create_category", IF r.cls = "ok" THEN "insert" ELSE "done",
                      NoId, [title |-> title], <<>>, r)]
  /\ UNCHANGED <<categories, quizzes, questions,
                 nextCategoryId, nextQuizId, nextQuestionId, last>>

\* create_category: the INSERT of get_or_create, after a SELECT that found no row
CreateCategory_insert(w) ==
  /\ calls[w].op = "create_category"
  /\ calls[w].pc = "insert"
  /\ categories' = [c \in DOMAIN categories \cup {nextCategoryId} |->
                      IF c = nextCategoryId
                      THEN [title |-> strip(calls[w].data.title)]
                      ELSE categories[c]]
  /\ nextCategoryId' = nextCategoryId + 1
  /\ calls' = [calls EXCEPT ![w].pc = "done", ![w].id = nextCategoryId]
  /\ UNCHANGED <<quizzes, questions, nextQuizId, nextQuestionId, last>>

\* delete_category: get_category and category.questions.exists()
DeleteCategory_guard(w, category_id) ==
  LET r == delete_category(category_id) IN
  /\ calls[w].pc = "idle"
  /\ calls' = [calls EXCEPT ![w] =
                 Call("delete_category", IF r.cls = "ok" THEN "delete" ELSE "done",
                      category_id, <<>>, <<>>, r)]
  /\ UNCHANGED <<categories, quizzes, questions,
                 nextCategoryId, nextQuizId, nextQuestionId, last>>

\* delete_category: category.delete(), which takes the questions that
\* reference the category at that moment with it (on_delete=CASCADE)
DeleteCategory_delete(w) ==
  /\ calls[w].op = "delete_category"
  /\ calls[w].pc = "delete"
  /\ categories' = [c \in DOMAIN categories \ {calls[w].id} |-> categories[c]]
  /\ questions' = cascade_category(calls[w].id)
  /\ calls' = [calls EXCEPT ![w].pc = "done"]
  /\ UNCHANGED <<quizzes, nextCategoryId, nextQuizId, nextQuestionId, last>>

\* delete_quiz: get_quiz and quiz.questions.exists()
DeleteQuiz_guard(w, quiz_id) ==
  LET r == delete_quiz(quiz_id) IN
  /\ calls[w].pc = "idle"
  /\ calls' = [calls EXCEPT ![w] =
                 Call("delete_quiz", IF r.cls = "ok" THEN "delete" ELSE "done",
                      quiz_id, <<>>, <<>>, r)]
  /\ UNCHANGED <<categories, quizzes, questions,
                 nextCategoryId, nextQuizId, nextQuestionId, last>>

\* delete_quiz: quiz.delete(), with the cascade
DeleteQuiz_delete(w) ==
  /\ calls[w].op = "delete_quiz"
  /\ calls[w].pc = "delete"
  /\ quizzes' = [z \in DOMAIN quizzes \ {calls[w].id} |-> quizzes[z]]
  /\ questions' = cascade_quiz(calls[w].id)
  /\ calls' = [calls EXCEPT ![w].pc = "done"]
  /\ UNCHANGED <<categories, nextCategoryId, nextQuizId, nextQuestionId, last>>

\* create_question: Quiz.objects.get, Category.objects.get and the checks of
\* the fields (those of clean() included: they read the arguments only)
CreateQuestion_lookup(w, quiz_id, data) ==
  LET r == create_question(quiz_id, data) IN
  /\ calls[w].pc = "idle"
  /\ calls' = [calls EXCEPT ![w] =
                 Call("create_question", IF r.cls = "ok" THEN "insert" ELSE "done",
                      quiz_id, data, <<>>, r)]
  /\ UNCHANGED <<categories, quizzes, questions,
                 nextCategoryId, nextQuizId, nextQuestionId, last>>

\* create_question: the INSERT of Question.objects.create.  The foreign keys
\* of the table refuse a row whose quiz or category is gone (IntegrityError,
\* a DatabaseError: the third except clause)
CreateQuestion_insert(w) ==
  LET c == calls[w]
      row == create_question_row(c.id, c.data) IN
  /\ c.op = "create_question"
  /\ c.pc = "insert"
  /\ IF c.id \in DOMAIN quizzes /\ row.category \in DOMAIN categories
     THEN /\ questions' = [q \in DOMAIN questions \cup {nextQuestionId} |->
                             IF q = nextQuestionId THEN row ELSE questions[q]]
          /\ nextQuestionId' = nextQuestionId + 1
          /\ calls' = [calls EXCEPT ![w].pc = "done", ![w].obj = row]
     ELSE /\ UNCHANGED <<questions, nextQuestionId>>
          /\ calls' = [calls EXCEPT
                         ![w].pc = "done",
                         ![w].res = Wrap("CreateQuestionError",
                                         Raise("IntegrityError", "ForeignKeyViolation"))]
  /\ UNCHANGED <<categories, quizzes, nextCategoryId, nextQuizId, last>>

\* update_question: get_question, which gives the worker its own copy of the row
UpdateQuestion_fetch(w, question_id, data) ==
  LET g == get_question(question_id) IN
  /\ calls[w].pc = "idle"
  /\ calls' = [calls EXCEPT ![w] =
                 IF g.res.cls = "ok"
                 THEN Call("update_question", "save", question_id, data,
                           questions[question_id], Ok)
                 ELSE Call("update_question", "done", question_id, data, <<>>,
                           Wrap("UpdateQuestionError", g.res))]
  /\ UNCHANGED <<categories, quizzes, questions,
                 nextCategoryId, nextQuizId, nextQuestionId, last>>

\* update_question: the checks and the assignments on the fetched copy, then
\* question.save(): clean() on the copy and the UPDATE of the row
UpdateQuestion_save(w) ==
  LET c == calls[w]
      f == update_question_field_checks(c.obj, c.data)
      object == update_question_row(c.obj, c.data)
      r == IF f.cls # "ok" THEN f ELSE clean(object) IN
  /\ c.op = "update_question"
  /\ c.pc = "save"
  /\ c.id \in DOMAIN questions
  /\ IF r.cls = "ok"
     THEN questions' = [questions EXCEPT ![c.id] = save(object, c.obj, questions[c.id])]
     ELSE UNCHANGED questions
  /\ calls' = [calls EXCEPT ![w].pc = "done", ![w].res = r]
  /\ UNCHANGED <<categories, quizzes,
                 nextCategoryId, nextQuizId, nextQuestionId, last>>

(***************************************************************************)
(* Inputs                                                                  *)
(***************************************************************************)
QuizData(t, d) == [title |-> t, description |-> d]

QuestionData(c, t, d, o, ca, df, e) ==
  [category_id |-> c, text |-> t, description |-> d, options |-> o,
   correct_answer |-> ca, difficulty |-> df, explanation |-> e]

\* a data dictionary that supplies category_id, options and correct_answer only
Patch(c, o, ca) == QuestionData(c, None, None, o, ca, "None", None)

AB == OptList(<<<<"a">>, <<"b">>>>)
XYZ == OptList(<<<<"x">>, <<"y">>, <<"z">>>>)

NoCall == [op |-> "none", id |-> NoId, data |-> <<>>, res |-> Ok, ret |-> NoRet]

Title(t) == [title |-> t]

(***************************************************************************)
(* SpecQuestions: any sequence of QuestionService calls on the database of *)
(* TestQuestionService.setup_method: one category, one quiz, no question.  *)
(* The calls vary options and correct_answer.                              *)
(***************************************************************************)
\* the ids calls are made with: those of rows that can exist, and one more
CallQuestionIds == 1..(MaxQuestions + 1)

QS_QuestionCreates ==
  {QuestionData(c, <<"t">>, None, o, ca, "easy", None) :
     c \in {1, 2}, o \in {AB}, ca \in {<<"a">>, <<"c">>}} \cup
  {QuestionData(NoId, <<"t">>, None, AB, <<"a">>, "easy", None),
   QuestionData(1, <<" ">>, None, AB, <<"c">>, "easy", None),
   QuestionData(1, <<"t">>, None, AB, None, "easy", None),
   QuestionData(1, <<"t">>, None, AB, <<"a">>, "None", None),
   QuestionData(1, <<"t">>, None, AB, <<"c">>, "impossible", None),
   QuestionData(1, <<"t">>, None, OptNone, <<"a">>, "easy", None),
   QuestionData(1, <<"t">>, None, OptStr(<<"a", "b">>), <<"a">>, "easy", None),
   QuestionData(1, <<"t">>, None, OptStr(<<"a", "b">>), <<"c">>, "easy", None),
   QuestionData(1, <<"t">>, None, OptList(<<<<"a">>>>), <<"a">>, "easy", None),
   QuestionData(1, <<"t">>, None, OptList(<<>>), <<"a">>, "easy", None)}

QS_QuestionUpdates ==
  {Patch(NoId, o, ca) :
     o \in {OptNone, AB, XYZ, OptList(<<>>), OptList(<<<<"y">>>>)},
     ca \in {None, <<"b">>, <<"y">>}} \cup
  {Patch(2, OptNone, None),
   Patch(NoId, OptStr(<<"a", "b">>), <<"a">>),
   QuestionData(NoId, <<" ">>, None, XYZ, <<"y">>, "None", None),
   QuestionData(NoId, None, None, XYZ, <<"y">>, "impossible", None)}

InitQuestions ==
  /\ categories = [c \in {1} |-> [title |-> <<"a">>]]
  /\ quizzes = [z \in {1} |-> [title |-> <<"a">>, description |-> None]]
  /\ questions = <<>>
  /\ nextCategoryId = 2
  /\ nextQuizId = 2
  /\ nextQuestionId = 1
  /\ last = NoCall
  /\ calls = NoCalls

NextQuestions ==
  \/ \E z \in {1, 2}, d \in QS_QuestionCreates : CreateQuestion(z, d)
  \/ \E q \in CallQuestionIds : GetQuestion(q)
  \/ \E q \in CallQuestionIds, d \in QS_QuestionUpdates : UpdateQuestion(q, d)
  \/ \E q \in CallQuestionIds : DeleteQuestion(q)

SpecQuestions == InitQuestions /\ [][NextQuestions]_vars

(***************************************************************************)
(* SpecGuards: any sequence of get / update / delete calls of the three    *)
(* services, question creation and random selection, on a database that    *)
(* holds two categories and two quizzes and, at first, no question.  The   *)
(* calls vary which quiz and category a question references.               *)
(***************************************************************************)
FixtureIds == {1, 2}
CallCategoryIds == FixtureIds \cup {3}
CallQuizIds == FixtureIds \cup {3}

GS_CategoryUpdates == {Title(None), Title(<<" ">>), Title(<<" ", "c">>)}
GS_QuizUpdates == {QuizData(None, None), QuizData(<<" ">>, None)}

GS_QuestionCreates ==
  {QuestionData(c, <<"t">>, None, AB, <<"a">>, "easy", None) : c \in CallCategoryIds} \cup
  {QuestionData(1, <<"t">>, None, AB, <<"c">>, "easy", None)}

GS_QuestionUpdates ==
  {Patch(c, OptNone, None) : c \in CallCategoryIds} \cup {Patch(NoId, XYZ, None)}

InitGuards ==
  /\ categories = [c \in FixtureIds |-> [title |-> IF c = 1 THEN <<"a">> ELSE <<"b">>]]
  /\ quizzes = [z \in FixtureIds |->
                  [title |-> IF z = 1 THEN <<"a">> ELSE <<"b">>, description |-> None]]
  /\ questions = <<>>
  /\ nextCategoryId = 3
  /\ nextQuizId = 3
  /\ nextQuestionId = 1
  /\ last = NoCall
  /\ calls = NoCalls

NextGuards ==
  \/ \E c \in CallCategoryIds : GetCategory(c)
  \/ \E c \in CallCategoryIds, d \in GS_CategoryUpdates, p \in BOOLEAN :
        UpdateCategory(c, d, p)
  \/ \E c \in CallCategoryIds : DeleteCategory(c)
  \/ \E z \in CallQuizIds : GetQuiz(z)
  \/ \E z \in CallQuizIds, d \in GS_QuizUpdates : UpdateQuiz(z, d)
  \/ \E z \in CallQuizIds : DeleteQuiz(z)
  \/ \E z \in CallQuizIds, d \in GS_QuestionCreates : CreateQuestion(z, d)
  \/ \E q \in CallQuestionIds : GetQuestion(q)
  \/ \E q \in CallQuestionIds, d \in GS_QuestionUpdates : UpdateQuestion(q, d)
  \/ \E q \in CallQuestionIds : DeleteQuestion(q)
  \/ \E z \in CallQuizIds : RandomQuestionFromQuiz(z)

SpecGuards == InitGuards /\ [][NextGuards]_vars

(***************************************************************************)
(* SpecRoundTrip: creations, reads and answer checks on an initially empty *)
(* database.  The calls vary the whitespace and the case of the strings.   *)
(***************************************************************************)
RT_CategoryTitles ==
  {None, <<>>, <<" ">>, <<" ", "a", " ">>, <<"a">>, <<"b">>,
   Rep("a", CATEGORY_TITLE_LENGTH + 1)}

RT_QuizCreates ==
  {QuizData(<<" ", "a", " ">>, <<" ", "d", " ">>), QuizData(<<"b">>, <<>>),
   QuizData(<<"b">>, <<" ">>),
   QuizData(<<>>, None), QuizData(None, <<"d">>),
   QuizData(Rep("a", QuizTitleLimit + 1), None),
   QuizData(<<"a">>, Rep("d", QuizDescriptionLimit + 1))}

SpA_B == OptList(<<<<" ", "A">>, <<"b">>>>)

RT_QuestionCreates ==
  {QuestionData(1, <<" ", "t", " ">>, <<" ", "d", " ">>, SpA_B, <<" ", "A">>, "easy",
                <<" ", "e", " ">>),
   QuestionData(1, <<"t">>, <<>>, AB, <<"b">>, "hard", None),
   QuestionData(1, <<"t">>, None, AB, <<"b">>, "hard", <<" ">>),
   QuestionData(1, Rep("t", DESCRIPTION_LENGTH + 1), None, AB, <<"a">>, "easy", None),
   QuestionData(1, <<"t">>, Rep("d", DESCRIPTION_LENGTH + 1), AB, <<"a">>, "easy", None),
   QuestionData(1, <<"t">>, None, AB, <<"a">>, "easy", Rep("e", EXPLANATION_LENGTH + 1)),
   QuestionData(1, <<"t">>, None, SpA_B, <<"A">>, "easy", None)}

RT_Answers ==
  {None, <<>>, <<"a">>, <<"A">>, <<"a", " ">>, <<" ", "A", " ">>, <<" ", "a">>,
   <<"b">>, <<" ", "B">>, <<"a", "b">>}

Init ==
  /\ categories = <<>>
  /\ quizzes = <<>>
  /\ questions = <<>>
  /\ nextCategoryId = 1
  /\ nextQuizId = 1
  /\ nextQuestionId = 1
  /\ last = NoCall
  /\ calls = NoCalls

NextRoundTrip ==
  \/ \E t \in RT_CategoryTitles : CreateCategory(t)
  \/ \E c \in 1..MaxCategories : GetCategory(c)
  \/ \E d \in RT_QuizCreates : CreateQuiz(d)
  \/ \E z \in 1..MaxQuizzes : GetQuiz(z)
  \/ \E d \in RT_QuestionCreates : CreateQuestion(1, d)
  \/ \E q \in 1..MaxQuestions : GetQuestion(q)
  \/ \E q \in 1..MaxQuestions, a \in RT_Answers : CheckAnswer(q, a)

SpecRoundTrip == Init /\ [][NextRoundTrip]_vars

(***************************************************************************)
(* SpecUpdates: any sequence of update_quiz / update_question calls and    *)
(* reads on a database that holds two categories, one quiz and one         *)
(* question, each with a description.  The data dictionaries of the calls  *)
(* hold only some of the keys: a key that is missing and a key that is     *)
(* present with the value None are different inputs.                       *)
(***************************************************************************)
AC == OptList(<<<<"a">>, <<"c">>>>)

US_QuizUpdates ==
  {<<>>,
   [title |-> <<" ", "q">>],
   [title |-> <<>>],
   [description |-> None],
   [description |-> <<>>],
   [title |-> <<"q">>, description |-> <<" ", "x">>]}

US_QuestionUpdates ==
  {<<>>,
   [text |-> <<" ", "u">>],
   [text |-> <<" ">>],
   [description |-> None],
   [description |-> <<>>],
   [options |-> XYZ],
   [options |-> AC],
   [options |-> OptList(<<>>)],
   [options |-> OptList(<<<<"a">>>>)],
   [options |-> XYZ, correct_answer |-> <<"y">>],
   [correct_answer |-> <<"c">>],
   [difficulty |-> "hard"],
   [difficulty |-> "impossible"],
   [explanation |-> <<>>],
   [category_id |-> 2],
   [category_id |-> 3]}

InitUpdates ==
  /\ categories = [c \in {1, 2} |-> [title |-> IF c = 1 THEN <<"a">> ELSE <<"b">>]]
  /\ quizzes = [z \in {1} |-> [title |-> <<"a">>, description |-> <<"d">>]]
  /\ questions = [q \in {1} |->
                    create_question_row(1,
                      QuestionData(1, <<"t">>, <<"d">>, AB, <<"a">>, "easy", <<"e">>))]
  /\ nextCategoryId = 3
  /\ nextQuizId = 2
  /\ nextQuestionId = 2
  /\ last = NoCall
  /\ calls = NoCalls

NextUpdates ==
  \/ \E z \in {1, 2}, d \in US_QuizUpdates : UpdateQuiz(z, d)
  \/ \E z \in {1, 2} : GetQuiz(z)
  \/ \E q \in {1, 2}, d \in US_QuestionUpdates : UpdateQuestion(q, d)
  \/ \E q \in {1, 2} : GetQuestion(q)

SpecUpdates == InitUpdates /\ [][NextUpdates]_vars

(***************************************************************************)
(* SpecCategories: any sequence of CategoryService create / get / update   *)
(* calls on an initially empty database.  The titles vary in whitespace    *)
(* and reach the length limit with and without surrounding whitespace.     *)
(***************************************************************************)
CS_Titles ==
  {None, <<>>, <<" ">>, <<"a">>, <<" ", "a", " ">>, <<"b">>,
   Rep("a", CATEGORY_TITLE_LENGTH),
   Rep("a", CATEGORY_TITLE_LENGTH + 1),
   <<" ">> \o Rep("a", CATEGORY_TITLE_LENGTH),
   <<" ">> \o Rep("a", CATEGORY_TITLE_LENGTH + 1)}

CS_Updates ==
  {<<>>, Title(None), Title(<<" ">>), Title(<<" ", "c">>),
   Title(<<" ">> \o Rep("c", CATEGORY_TITLE_LENGTH))}

InitCategories ==
  /\ categories = <<>>
  /\ quizzes = <<>>
  /\ questions = <<>>
  /\ nextCategoryId = 1
  /\ nextQuizId = 1
  /\ nextQuestionId = 1
  /\ last = NoCall
  /\ calls = NoCalls

NextCategories ==
  \/ \E t \in CS_Titles : CreateCategory(t)
  \/ \E c \in 1..(MaxCategories + 1) : GetCategory(c)
  \/ \E c \in 1..(MaxCategories + 1), d \in CS_Updates, p \in BOOLEAN :
        UpdateCategory(c, d, p)

SpecCategories == InitCategories /\ [][NextCategories]_vars

(***************************************************************************)
(* SpecQuizzes: any sequence of QuizService calls on an initially empty    *)
(* database.  Quizzes are created and renamed in an order that is not the  *)
(* order of their titles.                                                  *)
(***************************************************************************)
ZS_QuizCreates ==
  {QuizData(<<"b">>, None), QuizData(<<"a">>, None), [title |-> <<" ", "a">>],
   QuizData(<<"c">>, <<"d">>), QuizData(<<>>, None)}

ZS_QuizUpdates == {<<>>, [title |-> <<"a">>], [title |-> <<"c">>]}

InitQuizzes ==
  /\ categories = <<>>
  /\ quizzes = <<>>
  /\ questions = <<>>
  /\ nextCategoryId = 1
  /\ nextQuizId = 1
  /\ nextQuestionId = 1
  /\ last = NoCall
  /\ calls = NoCalls

NextQuizzes ==
  \/ \E d \in ZS_QuizCreates : CreateQuiz(d)
  \/ \E z \in 1..(MaxQuizzes + 1) : GetQuiz(z)
  \/ \E z \in 1..(MaxQuizzes + 1), d \in ZS_QuizUpdates : UpdateQuiz(z, d)
  \/ \E z \in 1..(MaxQuizzes + 1) : DeleteQuiz(z)
  \/ ListQuizzes

SpecQuizzes == InitQuizzes /\ [][NextQuizzes]_vars

(***************************************************************************)
(* SpecCreates: question creations, reads and deletions on the database of *)
(* TestQuestionService.setup_method.  The data dictionaries leave out      *)
(* optional and required keys.                                             *)
(***************************************************************************)
\* the keys every creation below supplies
Basic(ca) ==
  [category_id |-> 1, text |-> <<"t">>, options |-> AB, correct_answer |-> ca]

NS_QuestionCreates ==
  {Basic(<<"a">>), Basic(<<"c">>)} \cup
  {Basic(ca) @@ [difficulty |-> df] :
     ca \in {<<"a">>, <<"b">>}, df \in {"easy", "medium", "None"}} \cup
  {[text |-> <<"t">>, options |-> AB, correct_answer |-> <<"a">>, difficulty |-> "easy"],
   [category_id |-> 1, text |-> <<"t">>, correct_answer |-> <<"a">>, difficulty |-> "easy"],
   [category_id |-> 1, options |-> AB, correct_answer |-> <<"a">>, difficulty |-> "easy"],
   [category_id |-> 1, text |-> <<"t">>, options |-> AB, difficulty |-> "easy"]}

InitCreates ==
  /\ categories = [c \in {1} |-> [title |-> <<"a">>]]
  /\ quizzes = [z \in {1} |-> [title |-> <<"a">>, description |-> None]]
  /\ questions = <<>>
  /\ nextCategoryId = 2
  /\ nextQuizId = 2
  /\ nextQuestionId = 1
  /\ last = NoCall
  /\ calls = NoCalls

NextCreates ==
  \/ \E z \in {1, 2}, d \in NS_QuestionCreates : CreateQuestion(z, d)
  \/ \E q \in CallQuestionIds : GetQuestion(q)
  \/ \E q \in CallQuestionIds : DeleteQuestion(q)

SpecCreates == InitCreates /\ [][NextCreates]_vars

(***************************************************************************)
(* SpecViews: any sequence of requests to the detail endpoints of the      *)
(* three resources and to the question list endpoint, on a database that   *)
(* holds two categories, two quizzes and one question of category 1 and    *)
(* quiz 1.                                                                 *)
(***************************************************************************)
Payload(z, c, o, ca) ==
  [quiz_id |-> z, category_id |-> c, text |-> <<"t">>, options |-> o,
   correct_answer |-> ca, difficulty |-> "easy"]

VS_CategoryPayloads == {<<>>, Title(<<"c">>), Title(<<" ">>)}
VS_QuizPayloads ==
  {<<>>, [title |-> <<" ", "c">>], [title |-> <<" ">>], [description |-> <<"x">>]}
VS_QuestionPayloads ==
  {Payload(1, 1, AB, <<"a">>), Payload(1, 1, XYZ, <<"y">>), Payload(1, 1, AB, <<"c">>),
   Payload(3, 1, AB, <<"a">>), [text |-> <<"u">>], <<>>}

InitViews ==
  /\ categories = [c \in {1, 2} |-> [title |-> IF c = 1 THEN <<"a">> ELSE <<"b">>]]
  /\ quizzes = [z \in {1, 2} |->
                  [title |-> IF z = 1 THEN <<"a">> ELSE <<"b">>, description |-> None]]
  /\ questions = [q \in {1} |->
                    create_question_row(1,
                      QuestionData(1, <<"t">>, None, AB, <<"a">>, "easy", None))]
  /\ nextCategoryId = 3
  /\ nextQuizId = 3
  /\ nextQuestionId = 2
  /\ last = NoCall
  /\ calls = NoCalls

NextViews ==
  \/ \E id \in {1, 2, 3} : CategoryDetailAPIView_get(id)
  \/ \E id \in {1, 2, 3}, d \in VS_CategoryPayloads, p \in BOOLEAN :
        CategoryDetailAPIView_put(id, d, p)
  \/ \E id \in {1, 2, 3} : CategoryDetailAPIView_delete(id)
  \/ \E pk \in {1, 2, 3} : QuizDetailAPIView_get(pk)
  \/ \E pk \in {1, 2, 3}, d \in VS_QuizPayloads, p \in BOOLEAN :
        QuizDetailAPIView_put(pk, d, p)
  \/ \E pk \in {1, 2, 3} : QuizDetailAPIView_delete(pk)
  \/ \E d \in VS_QuestionPayloads : QuestionListCreateView_post(d)
  \/ \E pk \in {1, 2} : QuestionDetailView_get(pk)
  \/ \E pk \in {1, 2}, d \in VS_QuestionPayloads : QuestionDetailView_put(pk, d)
  \/ \E pk \in {1, 2}, d \in VS_QuestionPayloads : QuestionDetailView_patch(pk, d)
  \/ \E pk \in {1, 2} : QuestionDetailView_delete(pk)

SpecViews == InitViews /\ [][NextViews]_vars

(***************************************************************************)
(* SpecFailedUpdates: updates of the three kinds of record, and reads, on  *)
(* the database of SpecUpdates.  Many of the data dictionaries make the    *)
(* call fail after the service has already assigned an earlier field to    *)
(* the in-memory object: a later field is invalid, or clean() rejects the  *)
(* object in save().                                                       *)
(***************************************************************************)
FS_CategoryUpdates ==
  {<<>>, Title(<<" ">>), Title(<<" ", "c">>),
   Title(Rep("c", CATEGORY_TITLE_LENGTH + 1))}

FS_QuizUpdates ==
  {[title |-> <<"q">>],
   [title |-> <<" ">>],
   [title |-> <<"q">>, description |-> Rep("x", QuizDescriptionLimit + 1)],
   [description |-> <<"x">>]}

FS_QuestionUpdates ==
  {[text |-> <<"u">>],
   [text |-> <<"u">>, options |-> XYZ],
   [category_id |-> 2, text |-> <<" ">>],
   [category_id |-> 2, description |-> <<"x">>, difficulty |-> "impossible"],
   [category_id |-> 3, text |-> <<"u">>],
   [options |-> AC, correct_answer |-> <<"b">>],
   [options |-> OptList(<<<<"a">>>>)],
   [category_id |-> 2]}

NextFailedUpdates ==
  \/ \E c \in 1..3, d \in FS_CategoryUpdates, p \in BOOLEAN : UpdateCategory(c, d, p)
  \/ \E c \in 1..3 : GetCategory(c)
  \/ \E z \in {1, 2}, d \in FS_QuizUpdates : UpdateQuiz(z, d)
  \/ \E z \in {1, 2} : GetQuiz(z)
  \/ \E q \in {1, 2}, d \in FS_QuestionUpdates : UpdateQuestion(q, d)
  \/ \E q \in {1, 2} : GetQuestion(q)

SpecFailedUpdates == InitUpdates /\ [][NextFailedUpdates]_vars

(***************************************************************************)
(* SpecMoves: creations, updates and reads of questions on the database of *)
(* SpecViews (two quizzes, two categories, one question of quiz 1).  The   *)
(* data dictionaries of update_question carry the key quiz_id, with the id *)
(* of the other quiz or of no quiz, next to keys that the method reads.    *)
(***************************************************************************)
MS_QuestionUpdates ==
  {[quiz_id |-> 2],
   [quiz_id |-> 3],
   [quiz_id |-> 1, text |-> <<"u">>],
   [quiz_id |-> 2, text |-> <<"u">>],
   [quiz_id |-> 2, category_id |-> 2],
   [quiz_id |-> 2, options |-> XYZ],
   [quiz_id |-> 2, options |-> AC, difficulty |-> "hard"],
   [text |-> <<"t">>]}

NextMoves ==
  \/ \E z \in {1, 2} :
        CreateQuestion(z, QuestionData(1, <<"t">>, None, AB, <<"b">>, "easy", None))
  \/ \E q \in {1, 2}, d \in MS_QuestionUpdates : UpdateQuestion(q, d)
  \/ \E q \in {1, 2} : GetQuestion(q)

SpecMoves == InitViews /\ [][NextMoves]_vars

(***************************************************************************)
(* SpecTitles: any sequence of CategoryService create / update / delete    *)
(* calls on an initially empty database, with titles that are equal, or    *)
(* equal once trimmed.                                                     *)
(***************************************************************************)
TS_Titles == {<<"a">>, <<" ", "a", " ">>, <<"b">>, <<"b", " ">>, <<" ">>}

NextTitles ==
  \/ \E t \in TS_Titles : CreateCategory(t)
  \/ \E c \in 1..(MaxCategories + 1), t \in TS_Titles, p \in BOOLEAN :
        UpdateCategory(c, Title(t), p)
  \/ \E c \in 1..(MaxCategories + 1) : DeleteCategory(c)

SpecTitles == InitCategories /\ [][NextTitles]_vars

(***************************************************************************)
(* SpecConcurrent: two workers, each running one service call statement by *)
(* statement, in every interleaving, on the database of SpecViews.  The    *)
(* calls are the pairs that meet on one row: two creations of a category   *)
(* with one trimmed title, two updates of one question, a deletion of a    *)
(* quiz or category and the creation of a question in it.                  *)
(***************************************************************************)
CC_Titles == {<<"c">>, <<" ", "c">>}

CC_QuestionUpdates ==
  {[options |-> AC],
   [options |-> XYZ],
   [correct_answer |-> <<"b">>],
   [correct_answer |-> <<"c">>],
   [text |-> <<"u">>]}

CC_QuestionCreates ==
  {QuestionData(c, <<"t">>, None, AB, <<"a">>, "easy", None) : c \in {1, 2}}

NextConcurrent ==
  \/ \E w \in Workers, t \in CC_Titles : CreateCategory_get(w, t)
  \/ \E w \in Workers : CreateCategory_insert(w)
  \/ \E w \in Workers, c \in {1, 2} : DeleteCategory_guard(w, c)
  \/ \E w \in Workers : DeleteCategory_delete(w)
  \/ \E w \in Workers, z \in {1, 2} : DeleteQuiz_guard(w, z)
  \/ \E w \in Workers : DeleteQuiz_delete(w)
  \/ \E w \in Workers, z \in {1, 2}, d \in CC_QuestionCreates :
        CreateQuestion_lookup(w, z, d)
  \/ \E w \in Workers : CreateQuestion_insert(w)
  \/ \E w \in Workers, q \in {1, 2}, d \in CC_QuestionUpdates :
        UpdateQuestion_fetch(w, q, d)
  \/ \E w \in Workers : UpdateQuestion_save(w)

SpecConcurrent == InitViews /\ [][NextConcurrent]_vars

(***************************************************************************)
(* Properties                                                              *)
(***************************************************************************)

\* C1: in every state reached by question creations, updates and deletions,
\* whether they succeed or fail, every stored question has a list of at least
\* two options and its correct_answer is one of them.
C1_OptionsInvariant ==
  \A q \in DOMAIN questions :
    /\ questions[q].options.t = "list"
    /\ Len(questions[q].options.v) >= 2
    /\ questions[q].correct_answer \in Range(questions[q].options.v)

\* a stored question whose options an update has just replaced
C1_Witness ==
  /\ last.op = "update_question"
  /\ last.res.cls = "ok"
  /\ last.data.options = XYZ
  /\ last.data.correct_answer = None
  /\ questions[last.id].options = XYZ

\* C2: deleting a category or a quiz that a question references fails with the
\* conflict error and leaves every category, quiz and question as it was.
C2_DeleteGuard ==
  [][ /\ (/\ last'.op = "delete_category"
          /\ last'.id \in DOMAIN categories
          /\ questions_of_category(last'.id) # {})
         => (IsConflict(last'.res) /\ store' = store)
      /\ (/\ last'.op = "delete_quiz"
          /\ last'.id \in DOMAIN quizzes
          /\ questions_of_quiz(last'.id) # {})
         => (IsConflict(last'.res) /\ store' = store) ]_vars

\* a refused deletion of a category that questions reference
C2_Witness ==
  /\ last.op = "delete_category"
  /\ IsConflict(last.res)
  /\ last.id \in DOMAIN categories
  /\ questions_of_category(last.id) # {}

\* a text create_question accepts: present, not blank, within the length limit
ValidText(t) == Truthy(t) /\ Len(strip(t)) > 0 /\ Len(t) <= TEXT_LENGTH

\* C3: create_question for an existing quiz and an existing category, with a
\* valid text, a non-empty correct_answer and supplied options that do not hold
\* the correct_answer, fails with ValidationError and stores no question.
C3_CreateRejectsForeignAnswer ==
  [][ LET d == last'.data IN
      (/\ last'.op = "create_question"
       /\ last'.id \in DOMAIN quizzes
       /\ d.category_id \in DOMAIN categories
       /\ ValidText(d.text)
       /\ Truthy(d.correct_answer)
       /\ d.options.t # "none"
       /\ ~opt_contains(d.options, d.correct_answer))
      => (IsValidationError(last'.res) /\ questions' = questions) ]_vars

\* a creation refused for its correct_answer while another question is stored
C3_Witness ==
  /\ last.op = "create_question"
  /\ last.id \in DOMAIN quizzes
  /\ last.data.category_id \in DOMAIN categories
  /\ last.data.options = AB
  /\ last.data.correct_answer = <<"c">>
  /\ IsValidationError(last.res)
  /\ questions # <<>>

\* a data dictionary of update_question that supplies nothing but options and
\* correct_answer
OnlyOptionsAndAnswer(d) ==
  /\ d.category_id = NoId
  /\ d.text = None
  /\ d.description = None
  /\ d.difficulty = "None"
  /\ d.explanation = None

\* C4: update_question with a correct_answer checks it against the options of
\* the same call when the call supplies options, and against the stored options
\* otherwise; a failed check is a ValidationError that changes nothing, and a
\* passed check (with at least two options when they are supplied) is a success
\* after which the question holds the new options and the new correct_answer.
C4_AnswerCheckedAgainstSuppliedOptions ==
  [][ LET d == last'.data
          q == last'.id
          supplied == d.options.t # "none"
          against == IF supplied THEN d.options ELSE questions[q].options IN
      (/\ last'.op = "update_question"
       /\ q \in DOMAIN questions
       /\ OnlyOptionsAndAnswer(d)
       /\ d.options.t \in {"none", "list"}
       /\ Truthy(d.correct_answer))
      => IF opt_contains(against, d.correct_answer)
         THEN (supplied => Len(d.options.v) >= OPTIONS_COUNT)
              => /\ last'.res.cls = "ok"
                 /\ questions'[q].options = against
                 /\ questions'[q].correct_answer = d.correct_answer
         ELSE IsValidationError(last'.res) /\ questions' = questions ]_vars

\* C5: create_category with a title that, once trimmed, is the title of a
\* stored category fails with ValidationError and adds no category.
C5_DuplicateTitleIsValidationError ==
  [][ (/\ last'.op = "create_category"
       /\ Truthy(last'.data.title)
       /\ Len(last'.data.title) <= CATEGORY_TITLE_LENGTH
       /\ categories_with_title(strip(last'.data.title)) # {})
      => (IsValidationError(last'.res) /\ categories' = categories) ]_vars

\* an input string with its leading and trailing whitespace removed; an absent
\* input stays absent
Trimmed(x) == IF x = None THEN None ELSE strip(x)

\* C6 as stated: right after a successful create of a category, a quiz or a
\* question, get of the created id returns every field equal to the input
\* field with leading and trailing whitespace removed.
C6_RoundTripEveryFieldTrimmed ==
  last.res.cls = "ok" =>
    /\ last.op = "create_category" =>
         LET g == get_category(last.ret.id) IN
         g.res = Ok /\ g.ret.title = Trimmed(last.data.title)
    /\ last.op = "create_quiz" =>
         LET g == get_quiz(last.ret.id) IN
         /\ g.res = Ok
         /\ g.ret.title = Trimmed(last.data.title)
         /\ g.ret.description = Trimmed(last.data.description)
    /\ last.op = "create_question" =>
         LET g == get_question(last.ret.id) IN
         /\ g.res = Ok
         /\ g.ret.quiz = last.id
         /\ g.ret.category = last.data.category_id
         /\ g.ret.text = Trimmed(last.data.text)
         /\ g.ret.description = Trimmed(last.data.description)
         /\ g.ret.options = last.data.options
         /\ g.ret.correct_answer = Trimmed(last.data.correct_answer)
         /\ g.ret.difficulty = last.data.difficulty
         /\ g.ret.explanation = Trimmed(last.data.explanation)

\* an optional input string as it is stored: absent when the input is absent
\* or empty, trimmed otherwise
TrimmedOrAbsent(x) == IF x = None \/ x = <<>> THEN None ELSE strip(x)

\* C6 amended: right after a successful create, get of the created id returns
\* title and text trimmed, description and explanation trimmed (absent when
\* the input is absent or empty), and options, correct_answer, difficulty and
\* the referenced quiz and category exactly as supplied.
C6_RoundTrip ==
  last.res.cls = "ok" =>
    /\ last.op = "create_category" =>
         LET g == get_category(last.ret.id) IN
         g.res = Ok /\ g.ret.title = Trimmed(last.data.title)
    /\ last.op = "create_quiz" =>
         LET g == get_quiz(last.ret.id) IN
         /\ g.res = Ok
         /\ g.ret.title = Trimmed(last.data.title)
         /\ g.ret.description = TrimmedOrAbsent(last.data.description)
    /\ last.op = "create_question" =>
         LET g == get_question(last.ret.id) IN
         /\ g.res = Ok
         /\ g.ret.quiz = last.id
         /\ g.ret.category = last.data.category_id
         /\ g.ret.text = Trimmed(last.data.text)
         /\ g.ret.description = TrimmedOrAbsent(last.data.description)
         /\ g.ret.options = last.data.options
         /\ g.ret.correct_answer = last.data.correct_answer
         /\ g.ret.difficulty = last.data.difficulty
         /\ g.ret.explanation = TrimmedOrAbsent(last.data.explanation)

\* a created question whose text, description, explanation and correct_answer
\* were all supplied with surrounding whitespace
C6_Witness ==
  /\ last.op = "create_question"
  /\ last.res.cls = "ok"
  /\ last.data.text # strip(last.data.text)
  /\ last.data.correct_answer # strip(last.data.correct_answer)
  /\ Truthy(last.data.description)
  /\ last.data.description # strip(last.data.description)
  /\ get_question(last.ret.id).ret.text = strip(last.data.text)

\* the characters of s from its first to its last non-whitespace character
Core(s) ==
  LET solid == {i \in DOMAIN s : s[i] \notin Whitespace} IN
  IF solid = {} THEN <<>>
  ELSE SubSeq(s, CHOOSE i \in solid : \A j \in solid : i <= j,
                 CHOOSE i \in solid : \A j \in solid : j <= i)

\* two characters that differ at most in case
SameLetter(c, d) == c = d \/ {c, d} = {"a", "A"} \/ {c, d} = {"b", "B"}

EqualIgnoringCaseAndMargins(x, y) ==
  /\ Len(Core(x)) = Len(Core(y))
  /\ \A i \in 1..Len(Core(x)) : SameLetter(Core(x)[i], Core(y)[i])

\* C7: for an existing question and an answer string, check_answer returns
\* true exactly when the answer and the stored correct_answer are equal once
\* surrounding whitespace is removed and case is ignored.
C7_CheckAnswer ==
  (/\ last.op = "check_answer"
   /\ last.id \in DOMAIN questions
   /\ last.data.answer # None)
  => /\ last.res = Ok
     /\ last.ret = EqualIgnoringCaseAndMargins(questions[last.id].correct_answer,
                                               last.data.answer)

\* an answer accepted although it differs from the stored correct_answer in
\* both case and surrounding whitespace
C7_Witness ==
  /\ last.op = "check_answer"
  /\ last.res = Ok
  /\ last.ret = TRUE
  /\ questions[last.id].correct_answer = <<" ", "A">>
  /\ last.data.answer = <<"a", " ">>

\* C8: for a quiz that has questions, random_question_from_quiz returns a
\* question of that quiz, and the questions a call can return are all the
\* questions of the quiz.
C8_RandomQuestion ==
  /\ (last.op = "random_question_from_quiz" /\ last.res = Ok)
     => (last.ret.id \in DOMAIN questions /\ last.ret.quiz = last.id
         /\ last.ret = QuestionRow(last.ret.id))
  /\ \A z \in DOMAIN quizzes :
       questions_of_quiz(z) # {} =>
         /\ \A o \in random_question_from_quiz(z) : o.res = Ok /\ o.ret.quiz = z
         /\ {o.ret.id : o \in random_question_from_quiz(z)} = questions_of_quiz(z)

\* a call that returned the later of two questions of a quiz
C8_Witness ==
  /\ last.op = "random_question_from_quiz"
  /\ last.res = Ok
  /\ Cardinality(questions_of_quiz(last.id)) >= 2
  /\ \E q \in questions_of_quiz(last.id) : q < last.ret.id

\* C9: random_question_from_quiz fails with the not-found error when the quiz
\* does not exist, and with the different 'no questions' error when the quiz
\* exists and has no question; in both cases no question is returned.
C9_RandomQuestionErrors ==
  last.op = "random_question_from_quiz" =>
    /\ last.id \notin DOMAIN quizzes
         => (IsNotFound(last.res) /\ ~IsNoQuestions(last.res) /\ last.ret = NoRet)
    /\ (last.id \in DOMAIN quizzes /\ questions_of_quiz(last.id) = {})
         => (IsNoQuestions(last.res) /\ ~IsNotFound(last.res) /\ last.ret = NoRet)

\* a call for an existing quiz without questions while another quiz has one
C9_Witness ==
  /\ last.op = "random_question_from_quiz"
  /\ last.id \in DOMAIN quizzes
  /\ IsNoQuestions(last.res)
  /\ questions # <<>>

\* C10: get, update and delete of a category, a quiz or a question with an id
\* that no stored row of that kind has fail with the not-found error and leave
\* every category, quiz and question as it was.
C10_UnknownIdIsNotFound ==
  [][ /\ (/\ last'.op \in {"get_category", "update_category", "delete_category"}
          /\ last'.id \notin DOMAIN categories)
         => (IsNotFound(last'.res) /\ store' = store)
      /\ (/\ last'.op \in {"get_quiz", "update_quiz", "delete_quiz"}
          /\ last'.id \notin DOMAIN quizzes)
         => (IsNotFound(last'.res) /\ store' = store)
      /\ (/\ last'.op \in {"get_question", "update_question", "delete_question"}
          /\ last'.id \notin DOMAIN questions)
         => (IsNotFound(last'.res) /\ store' = store) ]_vars

\* an update of a category that does not exist, refused while questions are
\* stored
C10_Witness ==
  /\ last.op = "update_category"
  /\ last.id \notin DOMAIN categories
  /\ IsNotFound(last.res)
  /\ questions # <<>>

\* the keys of the data dictionary of update_quiz and of update_question, and
\* the field of the row that a key of update_question is written to
QuizKeys == {"title", "description"}
QuestionKeys ==
  {"category_id", "text", "description", "options", "correct_answer",
   "difficulty", "explanation"}
FieldOf(key) == IF key = "category_id" THEN "category" ELSE key

\* C11: after a successful update_quiz or update_question every field whose
\* key is missing from the data has the value it had before the call, and no
\* other row of any table has changed.
C11_OmittedFieldsKept ==
  [][ /\ (last'.op = "update_quiz" /\ last'.res = Ok)
         => /\ \A k \in QuizKeys \ DOMAIN last'.data :
                 quizzes'[last'.id][k] = quizzes[last'.id][k]
            /\ \A z \in DOMAIN quizzes \ {last'.id} : quizzes'[z] = quizzes[z]
            /\ DOMAIN quizzes' = DOMAIN quizzes
            /\ UNCHANGED <<categories, questions>>
      /\ (last'.op = "update_question" /\ last'.res = Ok)
         => /\ \A k \in QuestionKeys \ DOMAIN last'.data :
                 questions'[last'.id][FieldOf(k)] = questions[last'.id][FieldOf(k)]
            /\ questions'[last'.id].quiz = questions[last'.id].quiz
            /\ \A q \in DOMAIN questions \ {last'.id} : questions'[q] = questions[q]
            /\ DOMAIN questions' = DOMAIN questions
            /\ UNCHANGED <<categories, quizzes>> ]_vars

\* a successful update of the text alone of a question that has a description
C11_Witness ==
  /\ last.op = "update_question"
  /\ last.res = Ok
  /\ DOMAIN last.data = {"text"}
  /\ questions[last.id].text = <<"u">>
  /\ questions[last.id].description # None
  /\ questions[last.id].explanation # None

\* C12: create_category succeeds and stores the trimmed title when the trimmed
\* title is non-empty, at most CATEGORY_TITLE_LENGTH characters long and not
\* the title of a stored category; it fails with ValidationError exactly when
\* the trimmed title is empty or longer than CATEGORY_TITLE_LENGTH.
C12_LengthMeasuredAfterTrim ==
  [][ last'.op = "create_category" =>
      LET title == last'.data.title
          trimmed == Trimmed(title)
          bad == title = None \/ Len(trimmed) = 0
                 \/ Len(trimmed) > CATEGORY_TITLE_LENGTH IN
      /\ IsValidationError(last'.res) <=> bad
      /\ (~bad /\ categories_with_title(trimmed) = {})
         => /\ last'.res = Ok
            /\ last'.ret.id \in DOMAIN categories' \ DOMAIN categories
            /\ categories'[last'.ret.id].title = trimmed ]_vars

\* C13: update_category of a stored category with data that holds no title
\* fails and changes nothing when partial is false, and succeeds with the
\* title kept when partial is true.
C13_TitleRequiredUnlessPartial ==
  [][ (/\ last'.op = "update_category"
       /\ last'.id \in DOMAIN categories
       /\ "title" \notin DOMAIN last'.data)
      => IF last'.data.partial
         THEN last'.res = Ok /\ categories' = categories
         ELSE last'.res # Ok /\ categories' = categories ]_vars

\* the order of strings by their characters, for the characters of the titles
CharRank(c) ==
  CASE c = " " -> 0
    [] c = "A" -> 1
    [] c = "B" -> 2
    [] c = "a" -> 3
    [] c = "b" -> 4
    [] c = "c" -> 5
    [] OTHER -> 6

RECURSIVE StrLeq(_, _)
StrLeq(s, t) ==
  IF s = <<>> THEN TRUE
  ELSE IF t = <<>> THEN FALSE
  ELSE IF Head(s) # Head(t) THEN CharRank(Head(s)) < CharRank(Head(t))
  ELSE StrLeq(Tail(s), Tail(t))

\* C14: list_quizzes returns every stored quiz exactly once, in ascending
\* order of title.
C14_ListQuizzesByTitle ==
  last.op = "list_quizzes" =>
    LET rows == last.ret.rows IN
    /\ Len(rows) = Cardinality(DOMAIN quizzes)
    /\ \A z \in DOMAIN quizzes : \E i \in DOMAIN rows : rows[i] = QuizRow(z)
    /\ \A i, j \in DOMAIN rows : i < j => StrLeq(rows[i].title, rows[j].title)

\* C15: create_question with valid data that holds no difficulty succeeds and
\* the stored question has difficulty 'medium'.
C15_DefaultDifficulty ==
  [][ LET d == last'.data IN
      (/\ last'.op = "create_question"
       /\ last'.id \in DOMAIN quizzes
       /\ DOMAIN d = {"category_id", "text", "options", "correct_answer"}
       /\ d.category_id \in DOMAIN categories
       /\ ValidText(d.text)
       /\ d.options.t = "list"
       /\ Len(d.options.v) >= OPTIONS_COUNT
       /\ Truthy(d.correct_answer)
       /\ opt_contains(d.options, d.correct_answer))
      => /\ last'.res = Ok
         /\ last'.ret.id \in DOMAIN questions' \ DOMAIN questions
         /\ questions'[last'.ret.id].difficulty = "medium" ]_vars

\* the handlers of the detail endpoints: get, update and delete by id
DetailHandlers ==
  {v \o m : v \in {"CategoryDetailAPIView", "QuizDetailAPIView", "QuestionDetailView"},
            m \in {".get", ".put", ".patch", ".delete"}}

\* C16: a handler whose service call fails with the not-found error answers
\* 404, and a handler answers 400 only when the failure is a ValidationError
\* (of the service or of the serializer) or the conflict error.
C16_NotFoundIs404 ==
  last.op \in DetailHandlers =>
    /\ IsNotFound(last.res) => last.ret.status = 404
    /\ last.ret.status = 400 =>
         \/ IsValidationError(last.res)
         \/ last.res = SerializerErrors
         \/ IsConflict(last.res)

\* C17: the question create handler, given a payload with a stored quiz_id and
\* category_id, a valid text, a list of at least two options that holds the
\* correct_answer and a valid difficulty, answers 201 and stores exactly one
\* new question.
C17_PostCreatesQuestion ==
  [][ LET d == last'.data IN
      (/\ last'.op = "QuestionListCreateView.post"
       /\ DOMAIN d = {"quiz_id", "category_id", "text", "options",
                      "correct_answer", "difficulty"}
       /\ d.quiz_id \in DOMAIN quizzes
       /\ d.category_id \in DOMAIN categories
       /\ ValidText(d.text)
       /\ d.options.t = "list"
       /\ Len(d.options.v) >= OPTIONS_COUNT
       /\ Truthy(d.correct_answer)
       /\ d.correct_answer \in Range(d.options.v)
       /\ d.difficulty \in Difficulty_choices)
      => /\ last'.ret.status = 201
         /\ Cardinality(DOMAIN questions' \ DOMAIN questions) = 1
         /\ \A q \in DOMAIN questions :
              q \in DOMAIN questions' /\ questions'[q] = questions[q] ]_vars

\* C18: update_question whose data holds only a list of options without the
\* stored correct_answer fails with ValidationError, and the stored question
\* keeps its options and its correct_answer.
C18_OptionsWithoutStoredAnswer ==
  [][ LET d == last'.data
          id == last'.id IN
      (/\ last'.op = "update_question"
       /\ id \in DOMAIN questions
       /\ DOMAIN d = {"options"}
       /\ d.options.t = "list"
       /\ questions[id].correct_answer \notin Range(d.options.v))
      => /\ IsValidationError(last'.res)
         /\ questions'[id].options = questions[id].options
         /\ questions'[id].correct_answer = questions[id].correct_answer ]_vars

\* C19: update_question of a stored question whose data holds a list of fewer
\* than OPTIONS_COUNT options, the empty list included, fails with
\* ValidationError.
C19_TooFewOptionsRejected ==
  last.op = "update_question" /\ last.id \in DOMAIN questions
  /\ "options" \in DOMAIN last.data
  /\ last.data.options.t = "list"
  /\ Len(last.data.options.v) < OPTIONS_COUNT
  => IsValidationError(last.res)

\* C20: update_question of a question that has a description, with the key
\* description present in the data and null, succeeds and leaves the question
\* without a description.
C20_NullClearsDescription ==
  [][ LET d == last'.data
          id == last'.id IN
      (/\ last'.op = "update_question"
       /\ id \in DOMAIN questions
       /\ "description" \in DOMAIN d
       /\ d.description = None
       /\ questions[id].description # None)
      => /\ last'.res = Ok
         /\ questions'[id].description = None ]_vars

\* C21: create_question for a quiz_id that matches no Quiz fails with a
\* not-found error that is not the 'required objects not found' error of a
\* category_id that matches no Category.
C21_MissingQuizSurfacedDistinctly ==
  (last.op = "create_question" /\ last.id \notin DOMAIN quizzes)
  => /\ IsNotFound(last.res)
     /\ \A i \in DOMAIN last.res.msg : last.res.msg[i] # "RequiredObjectsNotFound"

\* the fourth kind of failure: a plain Exception that carries the context of
\* the operation and is neither a not-found nor a conflict
IsStorageError(r) == r.cls = "Exception" /\ ~IsNotFound(r) /\ ~IsConflict(r)

\* C22: every failing service call ends in NotFound, ValidationError,
\* ConflictError or StorageError; no exception of another class leaves the
\* service.
C22_OnlyFourErrorKinds ==
  last.res # Ok
  => \/ IsNotFound(last.res)
     \/ IsValidationError(last.res)
     \/ IsConflict(last.res)
     \/ IsStorageError(last.res)

\* C23: when update_category, update_quiz or update_question fails, every
\* stored row of every table is what it was before the call.
C23_FailedUpdateWritesNothing ==
  [][ (/\ last'.op \in {"update_category", "update_quiz", "update_question"}
       /\ last'.res # Ok)
      => UNCHANGED <<categories, quizzes, questions>> ]_vars

\* update_question has assigned the text and the options to the in-memory
\* object and failed in save(): the stored question has neither
C23_Witness ==
  /\ last.op = "update_question"
  /\ DOMAIN last.data = {"text", "options"}
  /\ IsValidationError(last.res)
  /\ last.id \in DOMAIN questions
  /\ questions[last.id].text # last.data.text
  /\ questions[last.id].options # last.data.options

\* C27: in every state that a sequence of service calls reaches, the quiz and
\* the category of every stored question are stored rows.
C27_QuestionsReferenceStoredRows ==
  \A q \in DOMAIN questions :
    /\ questions[q].quiz \in DOMAIN quizzes
    /\ questions[q].category \in DOMAIN categories

\* a category has just been deleted while a question is stored, and the
\* question was moved to the category that is left
C27_Witness ==
  /\ last.op = "delete_category"
  /\ last.res = Ok
  /\ DOMAIN categories = {2}
  /\ \E q \in DOMAIN questions : questions[q].category = 2

\* C30: update_question never changes the quiz of a question, whatever the
\* data dictionary holds, the key quiz_id included.
C30_UpdateKeepsQuiz ==
  [][ (last'.op = "update_question" /\ last'.id \in DOMAIN questions)
      => /\ last'.id \in DOMAIN questions'
         /\ questions'[last'.id].quiz = questions[last'.id].quiz ]_vars

\* a successful update whose data names another stored quiz and a new text:
\* the text is written, the quiz is not
C30_Witness ==
  /\ last.op = "update_question"
  /\ last.res = Ok
  /\ DOMAIN last.data = {"quiz_id", "text"}
  /\ last.data.quiz_id \in DOMAIN quizzes
  /\ questions[last.id].quiz # last.data.quiz_id
  /\ questions[last.id].text = last.data.text

\* no two rows of a Category table have the same title
TitlesDistinct(cs) ==
  \A c1, c2 \in DOMAIN cs : cs[c1].title = cs[c2].title => c1 = c2

\* C29 as stated: in every state that a sequence of create_category,
\* update_category and delete_category calls reaches, no two stored
\* categories have the same title.
C29_TitlesDistinct == TitlesDistinct(categories)

\* C29: a create_category or delete_category call on a database in which no
\* two categories have the same title leaves such a database; update_category
\* is not part of the statement, as it stores a title without a lookup.
C29_CreateAndDeleteKeepTitlesDistinct ==
  [][ (/\ last'.op \in {"create_category", "delete_category"}
       /\ TitlesDistinct(categories))
      => TitlesDistinct(categories') ]_vars

\* create_category has refused a title that, once trimmed, is the title of
\* a stored category
C29_Witness ==
  /\ last.op = "create_category"
  /\ last.res # Ok
  /\ \E i \in DOMAIN last.res.msg : last.res.msg[i] = "CategoryExists"
  /\ last.data.title # strip(last.data.title)
  /\ categories_with_title(strip(last.data.title)) # {}
  /\ TitlesDistinct(categories)

\* C24: the fetch, the validation and the save of one update_question call
\* are one atomic step: as long as a call that has fetched a question has
\* not saved it, the stored row is the row it fetched.
C24_UpdateIsAtomic ==
  \A w \in Workers :
    (calls[w].op = "update_question" /\ calls[w].pc = "save")
    => questions[calls[w].id] = calls[w].obj

\* C25: of two concurrent create_category calls with one trimmed title that
\* no category had, at most one succeeds and at most one category with that
\* title is stored.
C25_OneCreationPerTitle ==
  /\ TitlesDistinct(categories)
  /\ \A w1, w2 \in Workers :
       (/\ w1 # w2
        /\ calls[w1].op = "create_category" /\ calls[w1].pc = "done"
        /\ calls[w2].op = "create_category" /\ calls[w2].pc = "done"
        /\ strip(calls[w1].data.title) = strip(calls[w2].data.title))
       => ~(calls[w1].res = Ok /\ calls[w2].res = Ok)

\* C26: the delete statement of a successful delete_quiz or delete_category
\* removes no question, whatever a concurrent create_question has done since
\* the guard of the deletion was evaluated.
C26_DeleteRemovesNoQuestion ==
  [][ \A w \in Workers :
        (/\ calls[w].op \in {"delete_quiz", "delete_category"}
         /\ calls[w].pc = "delete"
         /\ calls'[w].pc = "done"
         /\ calls'[w].res = Ok)
        => DOMAIN questions' = DOMAIN questions ]_vars

\* C28: in every interleaving of two update_question calls on one question,
\* each checked against the row it fetched, every stored question has a list
\* of at least OPTIONS_COUNT options that holds its correct_answer.
C28_OptionsInvariantUnderInterleaving ==
  \A q \in DOMAIN questions :
    LET row == questions[q] IN
    /\ row.options.t = "list"
    /\ Len(row.options.v) >= OPTIONS_COUNT
    /\ \E i \in 1..Len(row.options.v) : row.options.v[i] = row.correct_answer

\* both calls fetched the same row of question 1 before either saved; one
\* changed the options only, the other the correct_answer only, and both
\* succeeded
C28_Witness ==
  \E w1, w2 \in Workers :
    /\ w1 # w2
    /\ calls[w1].op = "update_question" /\ calls[w1].pc = "done"
    /\ calls[w2].op = "update_question" /\ calls[w2].pc = "done"
    /\ calls[w1].id = calls[w2].id
    /\ calls[w1].obj = calls[w2].obj
    /\ DOMAIN calls[w1].data = {"options"}
    /\ DOMAIN calls[w2].data = {"correct_answer"}
    /\ calls[w1].res = Ok /\ calls[w2].res = Ok
    /\ calls[w1].data.options # calls[w1].obj.options
    /\ calls[w2].data.correct_answer # calls[w2].obj.correct_answer
====
